---- MODULE Spec2Model ----
(***************************************************************************)
(* Judging and scoring engine of toy_festival_app (tf_app/scores).         *)
(*                                                                         *)
(* The model covers ScoringService.submit_scores and the records it reads: *)
(* ScoringConfiguration, JudgeAssignment, ConflictOfInterest, Rubric,      *)
(* RubricCriteria and the JudgingScore table with its database constraint; *)
(* RubricService.create_rubric and clone_rubric; the admin pages of the    *)
(* score table; ResultsService.aggregate_scores and its four methods.      *)
(* Decimal amounts are integers in hundredths (10.00 is 1000), criterion   *)
(* weights are integers in thousandths (0.600 is 600), instants are        *)
(* integers.                                                               *)
(***************************************************************************)
EXTENDS Integers, Sequences, FiniteSets, TLC

\* ------------------------------------------------------------------ bounds
MaxTime == 3
MaxBatch == 2
MaxScores == 3
MaxAssignments == 2
MaxRubrics == 2
ClockStep == 150

\* ---------------------------------------------------------------- universe
NULL == "NULL"
Programs == {1, 2}
Judges == {"j1", "j2"}
Participants == {1, 2}
Calls == {1, 2}

\* register.Registration rows the engine reads (id, program, category_value,
\* participant); both belong to program 1, the second has no category.
Registrations ==
    { [id |-> 1, program |-> 1, category_value |-> "A", participant |-> 1],
      [id |-> 2, program |-> 1, category_value |-> NULL, participant |-> 2] }

AssignmentCategories == {"", "A", "B"}
\* scores_dict items: criteria 1 and 2 with a negative score, the maximum and a
\* score above the maximum; criterion 3 is in no rubric.
Items ==
    { [criteria_id |-> k, raw_score |-> v] : k \in {1, 2}, v \in {-100, 1000, 1100} }
    \cup { [criteria_id |-> 3, raw_score |-> 1000] }
STATUS_CHOICES == {"ACTIVE", "PAUSED", "COMPLETED", "CANCELLED"}

VARIABLES
    now,          \* timezone.now()
    config,       \* ScoringConfiguration per program, NoConfig when absent
    assignments,  \* JudgeAssignment rows
    conflicts,    \* ConflictOfInterest rows
    rubrics,      \* Rubric rows
    criteria,     \* RubricCriteria rows
    scores,       \* committed JudgingScore rows
    pc,           \* position of each submit_scores call
    call,         \* arguments and locals of each submit_scores call
    pending,      \* rows written inside the call's open transaction
    result,       \* outcome of each call's last run
    reply,        \* what the last call of another service or admin operation returned
    registrations, \* register.Registration rows with their status
    cache,        \* django.core.cache: key -> stored value and expiry
    db_ci,        \* whether the database compares strings case-insensitively
    points        \* rows of the bulk upload endpoint's table

vars == << now, config, assignments, conflicts, rubrics, criteria, scores,
           pc, call, pending, result, reply, registrations, cache, db_ci, points >>

adminVars == << config, assignments, conflicts, rubrics, criteria, reply >>
callVars == << pc, call, pending, result >>
siteVars == << registrations, cache, db_ci, points >>

\* Absent rows: a record that no stored row equals (primary keys start at 1).
NoRow == [id |-> 0]
NoConfig == [program |-> 0]
NoDeadline == << >>
NoReply == [op |-> "none"]

NoCall == [judge |-> NULL, registration |-> NoRow, scores_dict |-> << >>,
           idx |-> 0, rubric |-> NoRow, existing_score |-> NoRow]

\* timezone.now() advances.
Tick ==
    /\ now < MaxTime
    /\ now' = now + 1
    /\ UNCHANGED << adminVars, scores, callVars, siteVars >>

\* The same clock for the operations that count in seconds.
Elapse ==
    /\ now + ClockStep <= MaxTime * ClockStep
    /\ now' = now + ClockStep
    /\ UNCHANGED << adminVars, scores, callVars, siteVars >>

\* ------------------------------------------------- reads used by submit_scores
KeyOf(s) == << s.program, s.registration, s.judge, s.criteria >>

MaxId(rows) == IF rows = {} THEN 0 ELSE CHOOSE m \in {x.id : x \in rows} : \A x \in rows : x.id <= m

\* QuerySet.first(): the row that comes first in the model's ordering; a model
\* without Meta.ordering is ordered by primary key.
FirstByPk(rows) == IF rows = {} THEN NoRow ELSE CHOOSE x \in rows : \A y \in rows : x.id <= y.id

\* Rubric.Meta.ordering ends with -created_at: the newest row comes first.
FirstNewest(rows) == IF rows = {} THEN NoRow ELSE CHOOSE x \in rows : \A y \in rows : x.id >= y.id

is_scoring_active(cfg, t) == cfg.scoring_start <= t /\ t <= cfg.scoring_end

WindowEndExclusive(program, t) ==
    IF config[program] = NoConfig THEN "NoScoringConfiguration"
    ELSE IF t < config[program].scoring_start THEN "NotStarted"
    ELSE IF t >= config[program].scoring_end THEN "WindowClosed"
    ELSE "OK"

validate_scoring_window(program, t) ==
    IF config[program] = NoConfig THEN "NoScoringConfiguration"
    ELSE IF t < config[program].scoring_start THEN "NotStarted"
    ELSE IF t > config[program].scoring_end THEN "WindowClosed"
    ELSE "OK"

PermissionAnyStatus(judge, registration) ==
    IF \E a \in assignments :
          /\ a.judge = judge
          /\ a.program = registration.program
          /\ (a.category_value = "" \/ a.category_value = registration.category_value)
    THEN "OK" ELSE "NotAssigned"

validate_judge_permission(judge, registration) ==
    IF \E a \in assignments :
          /\ a.judge = judge
          /\ a.program = registration.program
          /\ a.status = "ACTIVE"
          /\ (a.category_value = "" \/ a.category_value = registration.category_value)
    THEN "OK" ELSE "NotAssigned"

ConflictUnlessApproved(judge, registration) ==
    LET conflict == { x \in conflicts : x.judge = judge /\ x.participant = registration.participant }
    IN IF \E x \in conflict : x.status # "APPROVED" THEN "ConflictOfInterest" ELSE "OK"

check_conflicts(judge, registration) ==
    LET conflict == { x \in conflicts : x.judge = judge /\ x.participant = registration.participant }
    IN IF \E x \in conflict : x.status = "REJECTED" THEN "ConflictOfInterest" ELSE "OK"

get_for_registration(registration) ==
    LET specific == FirstNewest({ r \in rubrics : /\ r.program = registration.program
                                                  /\ r.category_value = registration.category_value
                                                  /\ r.is_active })
        general == FirstNewest({ r \in rubrics : /\ r.program = registration.program
                                                 /\ r.category_value = NULL
                                                 /\ r.is_active })
    IN IF registration.category_value \notin {NULL, ""} /\ specific # NoRow
       THEN specific ELSE general

\* ------------------------------------------------------- JudgingScore.save
\* Decimal quantize to the column's two decimal places (ROUND_HALF_EVEN).
RoundHalfEven(n, d) ==
    LET q == n \div d
        r == n % d
    IN IF 2 * r < d THEN q
       ELSE IF 2 * r > d THEN q + 1
       ELSE IF q % 2 = 0 THEN q ELSE q + 1

RECURSIVE GCD(_, _)
GCD(a, b) == IF b = 0 THEN (IF a < 0 THEN -a ELSE a) ELSE GCD(b, a % b)

\* save() lines 571-574: raw_score / max_score * 100, stored with two decimals.
score_percentage(raw_score, max_score) ==
    IF max_score > 0 THEN RoundHalfEven(raw_score * 10000, max_score) ELSE 0

WeightedWithoutTotalPoints(raw_score, crit, rubric) ==
    IF crit.max_score > 0
    THEN RoundHalfEven(raw_score * crit.weight, crit.max_score * 10)
    ELSE 0

\* save() line 576: (score_percentage / 100) * weight * total_possible_points on
\* the unrounded percentage, stored with two decimals.  The exact quotient is
\* raw_score * weight * total / (max_score * 1000); common factors are
\* cancelled before multiplying so that the products stay within 32 bits.
weighted_score(raw_score, crit, rubric) ==
    IF crit.max_score > 0
    THEN LET g1 == GCD(raw_score, crit.max_score)
             g2 == GCD(crit.weight, 1000)
             a == raw_score \div g1
             d1 == crit.max_score \div g1
             b == crit.weight \div g2
             d2 == 1000 \div g2
             g3 == GCD(rubric.total_possible_points, d1 * d2)
             t == rubric.total_possible_points \div g3
             d == (d1 * d2) \div g3
         IN RoundHalfEven(a * b * t, d)
    ELSE 0

RubricOf(crit) == CHOOSE r \in rubrics : r.id = crit.rubric

NewScore(id, program, registration, judge, crit, raw_score, revision_number, previous_score) ==
    [ id |-> id, program |-> program, registration |-> registration, judge |-> judge,
      criteria |-> crit.id, raw_score |-> raw_score, max_score |-> crit.max_score,
      score_percentage |-> score_percentage(raw_score, crit.max_score),
      weighted_score |-> weighted_score(raw_score, crit, RubricOf(crit)),
      revision_number |-> revision_number, previous_score |-> previous_score ]

\* ------------------------------------------------ JudgingScore table access
OpenRows == UNION { pending[c] : c \in Calls }

\* Rows a call's queries see: committed rows and the rows of its own open
\* transaction (READ COMMITTED).
Visible(c) == scores \cup pending[c]

SameKey(rows, program, registration, judge, crit) ==
    { x \in rows : KeyOf(x) = << program, registration, judge, crit >> }

NoUniqueConstraint(rows, row) == TRUE

\* JudgingScore.Meta.unique_together = (program, registration, judge, criteria):
\* TRUE when the table accepts the insert of row next to rows.
unique_together(rows, row) == \A x \in rows : KeyOf(x) # KeyOf(row)

\* previous_score is a foreign key to JudgingScore: TRUE when the row it names
\* (the primary key among the rows of the same key) is in rows.  The database
\* refuses the row otherwise, at the insert or at the latest at the commit; in
\* both cases the transaction ends with IntegrityError and is rolled back.
previous_score_exists(rows, row) ==
    row.previous_score = 0
    \/ \E x \in rows : KeyOf(x) = KeyOf(row) /\ x.id = row.previous_score

\* The committed table after the call's transaction.atomic() block is left by
\* an exception.
RollbackKeepsWrites(c) == scores \cup pending[c]

Rollback(c) == scores

\* The committed table after the call's transaction.atomic() block ends normally.
CommitRows(c) == scores \cup pending[c]

\* --------------------------------------------- ScoringService.submit_scores
PreCheckConflictFirst(judge, registration) ==
    IF validate_scoring_window(registration.program, now) # "OK"
    THEN validate_scoring_window(registration.program, now)
    ELSE IF check_conflicts(judge, registration) # "OK"
    THEN check_conflicts(judge, registration)
    ELSE IF validate_judge_permission(judge, registration) # "OK"
    THEN validate_judge_permission(judge, registration)
    ELSE IF get_for_registration(registration) = NoRow
    THEN "NoActiveRubric"
    ELSE "OK"

\* Lines 46-61: the four gates that run before the transaction is opened.
PreCheck(judge, registration) ==
    IF validate_scoring_window(registration.program, now) # "OK"
    THEN validate_scoring_window(registration.program, now)
    ELSE IF validate_judge_permission(judge, registration) # "OK"
    THEN validate_judge_permission(judge, registration)
    ELSE IF check_conflicts(judge, registration) # "OK"
    THEN check_conflicts(judge, registration)
    ELSE IF get_for_registration(registration) = NoRow
    THEN "NoActiveRubric"
    ELSE "OK"

\* The call returns or raises: the judge, the registration, the position in
\* scores_dict it had reached and the existing score it last looked up stay on
\* record, the rest of its locals is gone.
Finish(c, outcome) ==
    /\ pc' = [pc EXCEPT ![c] = "idle"]
    /\ result' = [result EXCEPT ![c] = outcome]
    /\ pending' = [pending EXCEPT ![c] = {}]
    /\ call' = [call EXCEPT ![c] = [NoCall EXCEPT !.judge = call[c].judge,
                                                   !.registration = call[c].registration,
                                                   !.idx = call[c].idx,
                                                   !.existing_score = call[c].existing_score]]

Abort(c, outcome) ==
    /\ Finish(c, outcome)
    /\ scores' = Rollback(c)

\* A caller invokes submit_scores(judge, registration, scores_dict).
SubmitBegin(c, judge, registration, scores_dict) ==
    /\ pc[c] = "idle"
    /\ Cardinality(scores \cup OpenRows) + Len(scores_dict) <= MaxScores
    /\ call' = [call EXCEPT ![c] =
                  [NoCall EXCEPT !.judge = judge, !.registration = registration,
                                 !.scores_dict = scores_dict]]
    /\ pc' = [pc EXCEPT ![c] = "gates"]
    /\ result' = [result EXCEPT ![c] = "running"]
    /\ UNCHANGED << now, siteVars, adminVars, scores, pending >>

\* Lines 46-63: the gates, then the atomic block is entered.
SubmitGates(c) ==
    /\ pc[c] = "gates"
    /\ IF PreCheck(call[c].judge, call[c].registration) # "OK"
       THEN Abort(c, PreCheck(call[c].judge, call[c].registration))
       ELSE /\ call' = [call EXCEPT ![c].rubric = get_for_registration(call[c].registration),
                                    ![c].idx = 1]
            /\ pc' = [pc EXCEPT ![c] = IF Len(call[c].scores_dict) = 0 THEN "commit" ELSE "item"]
            /\ UNCHANGED << scores, pending, result >>
    /\ UNCHANGED << now, siteVars, adminVars >>

Item(c) == call[c].scores_dict[call[c].idx]

CriteriaOf(c) == { k \in criteria : k.id = Item(c).criteria_id /\ k.rubric = call[c].rubric.id }

\* Lines 67-76 for one item: the criterion is looked up in the resolved rubric,
\* then the score is compared with its max_score.
CheckItem(c, item) ==
    LET found == { k \in criteria : k.id = item.criteria_id /\ k.rubric = call[c].rubric.id }
    IN IF found = {} THEN "CriteriaNotFound"
       ELSE IF \E k \in found : item.raw_score > k.max_score THEN "ScoreExceedsMax"
       ELSE "OK"

ItemCheck(c) == CheckItem(c, Item(c))

SubmitLookup(c) ==
    /\ pc[c] = "item"
    /\ IF ItemCheck(c) # "OK"
       THEN Abort(c, ItemCheck(c))
       ELSE /\ call' = [call EXCEPT ![c].existing_score =
                          FirstByPk(SameKey(Visible(c), call[c].registration.program,
                                            call[c].registration.id, call[c].judge,
                                            Item(c).criteria_id))]
            /\ pc' = [pc EXCEPT ![c] = "write"]
            /\ UNCHANGED << scores, pending, result >>
    /\ UNCHANGED << now, siteVars, adminVars >>

RevisionCheckIgnoresPolicy(c) ==
    LET cfg == config[call[c].existing_score.program]
        old == call[c].existing_score
        revision_count == Cardinality(SameKey(Visible(c), old.program, old.registration,
                                              old.judge, old.criteria))
    IN IF cfg.max_revisions_per_score > 0
          /\ revision_count >= cfg.max_revisions_per_score
       THEN "MaxRevisionsExceeded"
       ELSE "OK"

\* track_revision lines 196-214: the revision policy of the program.
RevisionCheck(c) ==
    LET cfg == config[call[c].existing_score.program]
        old == call[c].existing_score
        revision_count == Cardinality(SameKey(Visible(c), old.program, old.registration,
                                              old.judge, old.criteria))
    IN IF ~cfg.allow_revisions THEN "RevisionsNotAllowed"
       ELSE IF cfg.revision_deadline # NoDeadline /\ now > cfg.revision_deadline[1]
       THEN "RevisionDeadlinePassed"
       ELSE IF cfg.max_revisions_per_score > 0
               /\ revision_count >= cfg.max_revisions_per_score
       THEN "MaxRevisionsExceeded"
       ELSE "OK"

\* The row that lines 99-107 (first score) or 217-227 (revision) insert.  Its
\* id stands for the primary key: only the order of the primary keys of the
\* rows of one key is ever used (first(), previous_score), so id counts the
\* rows of the key in the order of their insertion.
RowToInsert(c) ==
    LET crit == CHOOSE k \in CriteriaOf(c) : TRUE
        old == call[c].existing_score
        program == call[c].registration.program
        registration == call[c].registration.id
    IN NewScore(MaxId(SameKey(scores \cup OpenRows, program, registration,
                              call[c].judge, crit.id)) + 1,
                program, registration, call[c].judge, crit, Item(c).raw_score,
                IF old = NoRow THEN 1 ELSE old.revision_number + 1,
                old.id)

\* The insert waits while another open transaction holds an uncommitted row
\* with the same unique key.
BlockedBy(c, d) ==
    /\ d # c
    /\ pc[c] = "write"
    /\ IF call[c].existing_score = NoRow THEN TRUE ELSE RevisionCheck(c) = "OK"
    /\ ~unique_together(pending[d], RowToInsert(c))

SubmitWrite(c) ==
    /\ pc[c] = "write"
    /\ IF call[c].existing_score # NoRow /\ RevisionCheck(c) # "OK"
       THEN Abort(c, RevisionCheck(c))
       ELSE /\ \A d \in Calls : ~BlockedBy(c, d)
            /\ IF \/ ~unique_together(Visible(c), RowToInsert(c))
                  \/ ~previous_score_exists(Visible(c), RowToInsert(c))
               THEN Abort(c, "IntegrityError")
               ELSE /\ pending' = [pending EXCEPT ![c] = @ \cup {RowToInsert(c)}]
                    /\ call' = [call EXCEPT ![c].idx = @ + 1]
                    /\ pc' = [pc EXCEPT ![c] =
                                IF call[c].idx = Len(call[c].scores_dict)
                                THEN "commit" ELSE "item"]
                    /\ UNCHANGED << scores, result >>
    /\ UNCHANGED << now, siteVars, adminVars >>

\* Two calls each wait for the other's uncommitted row: the database ends one
\* of the two transactions.
DeadlockAbort(c) ==
    /\ \E d \in Calls : BlockedBy(c, d) /\ BlockedBy(d, c)
    /\ Abort(c, "DeadlockDetected")
    /\ UNCHANGED << now, siteVars, adminVars >>

\* Line 110: the atomic block ends without an exception.
SubmitCommit(c) ==
    /\ pc[c] = "commit"
    /\ Finish(c, "OK")
    /\ scores' = CommitRows(c)
    /\ UNCHANGED << now, siteVars, adminVars >>

\* ------------------------------------------------------------- RubricService
RECURSIVE SumWeights(_)
SumWeights(criteria_list) ==
    IF criteria_list = << >> THEN 0
    ELSE Head(criteria_list).weight + SumWeights(Tail(criteria_list))

Abs(x) == IF x < 0 THEN -x ELSE x

WeightsStrictlyWithin(criteria_list) == Abs(SumWeights(criteria_list) - 1000) < 10

\* validate_rubric_weights: TRUE when no ValidationError is raised.  Weights
\* are thousandths, so 1.0 is 1000 and the tolerance 0.01 is 10.
validate_rubric_weights(criteria_list) == ~(Abs(SumWeights(criteria_list) - 1000) > 10)

\* RubricCriteria.Meta.unique_together = (rubric, name) for the rows of one
\* new rubric.
UniqueNames(criteria_list) ==
    \A i, j \in DOMAIN criteria_list : i # j => criteria_list[i].name # criteria_list[j].name

DeactivateNullMatchesNothing(program, category_value) ==
    { IF /\ r.program = program /\ category_value # NULL
         /\ r.category_value = category_value /\ r.is_active
      THEN [r EXCEPT !.is_active = FALSE] ELSE r : r \in rubrics }

\* Lines 263-267: the active rubrics of the program and category are
\* deactivated; a category_value of None selects the rows whose category_value
\* IS NULL.
Deactivate(program, category_value) ==
    { IF r.program = program /\ r.category_value = category_value /\ r.is_active
      THEN [r EXCEPT !.is_active = FALSE] ELSE r : r \in rubrics }

NewRubric(id, program, category_value, total_points) ==
    [id |-> id, program |-> program, category_value |-> category_value,
     total_possible_points |-> total_points, is_active |-> TRUE]

\* Lines 279-284: the criteria are inserted one by one until an insert breaks
\* unique_together (rubric, name); the value is the number of rows inserted.
Inserted(criteria_list) ==
    IF UniqueNames(criteria_list) THEN Len(criteria_list)
    ELSE (CHOOSE j \in DOMAIN criteria_list :
            /\ \E i \in 1..(j - 1) : criteria_list[i].name = criteria_list[j].name
            /\ \A k \in 1..(j - 1) : \A i \in 1..(k - 1) :
                   criteria_list[i].name # criteria_list[k].name) - 1

AtomicKeepsWrites(before, written, failed) == written

\* Line 261: with transaction.atomic() undoes the block's writes when an
\* exception leaves it.
Atomic(before, written, failed) == IF failed THEN before ELSE written

\* RubricService.create_rubric
create_rubric(program, category_value, criteria_list, total_points) ==
    /\ Cardinality(rubrics) < MaxRubrics
    /\ LET id == MaxId(rubrics) + 1
           base == MaxId(criteria)
           args == [op |-> "create_rubric", program |-> program,
                    category_value |-> category_value, criteria_list |-> criteria_list]
           failed == ~UniqueNames(criteria_list)
           rubrics_written == Deactivate(program, category_value)
                                \cup { NewRubric(id, program, category_value, total_points) }
           criteria_written == criteria \cup
                    { [id |-> base + i, rubric |-> id, name |-> criteria_list[i].name,
                       max_score |-> criteria_list[i].max_score,
                       weight |-> criteria_list[i].weight] : i \in 1..Inserted(criteria_list) }
       IN IF ~validate_rubric_weights(criteria_list)
          THEN /\ reply' = [outcome |-> "ValidationError", rubric |-> 0] @@ args
               /\ UNCHANGED << rubrics, criteria >>
          ELSE /\ rubrics' = Atomic(rubrics, rubrics_written, failed)
               /\ criteria' = Atomic(criteria, criteria_written, failed)
               /\ reply' = IF failed THEN [outcome |-> "IntegrityError", rubric |-> 0] @@ args
                           ELSE [outcome |-> "OK", rubric |-> id] @@ args
    /\ UNCHANGED << now, siteVars, config, assignments, conflicts, scores, callVars >>

\* --------------------------------------------- create_rubric, call by call
\* The same function as the steps of a database transaction under READ
\* COMMITTED, for callers running at the same time.  pending[c] holds the
\* rubric rows as the open transaction of call c has written them.
Ids(rows) == { r.id : r \in rows }

SamePair(r, program, category_value) ==
    r.program = program /\ r.category_value = category_value

\* Rubric.Meta.constraints: UniqueConstraint(program, category_value) where
\* is_active.  The rows that an active row of the pair collides with; in a
\* unique index NULLs are distinct, so a row without category collides with
\* none.
one_active_rubric_per_program_category(rows, program, category_value) ==
    { r \in rows : /\ category_value # NULL
                   /\ r.is_active
                   /\ SamePair(r, program, category_value) }

\* Lines 261-267: the transaction starts and the UPDATE selects, among the
\* committed rows, the active rubrics of the program and category.
RubricBegin(c, program, category_value, criteria_list) ==
    /\ pc[c] = "idle"
    /\ Cardinality(rubrics) + Cardinality({ d \in Calls : pc[d] # "idle" }) < MaxRubrics
    /\ IF ~validate_rubric_weights(criteria_list)
       THEN /\ result' = [result EXCEPT ![c] = "ValidationError"]
            /\ UNCHANGED << pc, call >>
       ELSE /\ pc' = [pc EXCEPT ![c] = "rubric_update"]
            /\ call' = [call EXCEPT ![c] =
                           [program |-> program, category_value |-> category_value,
                            criteria_list |-> criteria_list, rubric |-> 0,
                            matched |-> Ids({ r \in rubrics :
                                              r.is_active /\ SamePair(r, program, category_value) })]]
            /\ result' = [result EXCEPT ![c] = "none"]
    /\ UNCHANGED << now, siteVars, adminVars, scores, pending >>

\* The UPDATE waits for the transactions that hold a selected row, looks at
\* the row's committed version again and writes is_active = False to the rows
\* that are still active.
RubricDeactivate(c) ==
    /\ pc[c] = "rubric_update"
    /\ \A d \in Calls \ {c} : Ids(pending[d]) \cap call[c].matched = {}
    /\ pending' = [pending EXCEPT ![c] =
                     { [r EXCEPT !.is_active = FALSE]
                       : r \in { x \in rubrics : x.id \in call[c].matched /\ x.is_active } }]
    /\ pc' = [pc EXCEPT ![c] = "rubric_insert"]
    /\ UNCHANGED << now, siteVars, adminVars, scores, call, result >>

\* Lines 269-284: the rubric and its criteria are inserted.  The insert waits
\* for an open transaction that wrote a colliding row, fails on a committed
\* colliding row or on two criteria of one name, and the failure undoes the
\* transaction.
RubricInsert(c) ==
    /\ pc[c] = "rubric_insert"
    /\ LET program == call[c].program
           category_value == call[c].category_value
           committed == { r \in rubrics : r.id \notin Ids(pending[c]) }
           colliding == one_active_rubric_per_program_category(committed, program, category_value)
           id == MaxId(rubrics \cup UNION { pending[d] : d \in Calls }) + 1
       IN /\ \A d \in Calls \ {c} :
                /\ one_active_rubric_per_program_category(pending[d], program, category_value) = {}
                /\ Ids(pending[d]) \cap Ids(colliding) = {}
          /\ IF colliding # {} \/ ~UniqueNames(call[c].criteria_list)
             THEN /\ pending' = [pending EXCEPT ![c] = {}]
                  /\ pc' = [pc EXCEPT ![c] = "idle"]
                  /\ result' = [result EXCEPT ![c] = "IntegrityError"]
                  /\ call' = call
             ELSE /\ pending' = [pending EXCEPT ![c] =
                                   @ \cup { NewRubric(id, program, category_value, 10000) }]
                  /\ pc' = [pc EXCEPT ![c] = "rubric_commit"]
                  /\ call' = [call EXCEPT ![c].rubric = id]
                  /\ result' = result
    /\ UNCHANGED << now, siteVars, adminVars, scores >>

\* The with block ends: the transaction's rows replace the committed ones.
RubricCommit(c) ==
    /\ pc[c] = "rubric_commit"
    /\ rubrics' = { r \in rubrics : r.id \notin Ids(pending[c]) } \cup pending[c]
    /\ LET criteria_list == call[c].criteria_list
           base == MaxId(criteria)
       IN criteria' = criteria \cup
            { [id |-> base + i, rubric |-> call[c].rubric, name |-> criteria_list[i].name,
               max_score |-> criteria_list[i].max_score,
               weight |-> criteria_list[i].weight] : i \in 1..Len(criteria_list) }
    /\ pending' = [pending EXCEPT ![c] = {}]
    /\ pc' = [pc EXCEPT ![c] = "idle"]
    /\ result' = [result EXCEPT ![c] = "OK"]
    /\ UNCHANGED << now, siteVars, config, assignments, conflicts, reply, scores, call >>

\* RubricService.clone_rubric: every active rubric of the target program is
\* deactivated, the copy gets no category_value.
clone_rubric(source_rubric, target_program) ==
    /\ Cardinality(rubrics) < MaxRubrics
    /\ LET id == MaxId(rubrics) + 1
           base == MaxId(criteria)
           source == { k \in criteria : k.rubric = source_rubric.id }
           rank(k) == Cardinality({ x \in source : x.id <= k.id })
       IN /\ rubrics' = { IF r.program = target_program /\ r.is_active
                          THEN [r EXCEPT !.is_active = FALSE] ELSE r : r \in rubrics }
                        \cup { NewRubric(id, target_program, NULL,
                                         source_rubric.total_possible_points) }
          /\ criteria' = criteria \cup
               { [k EXCEPT !.id = base + rank(k), !.rubric = id] : k \in source }
          /\ reply' = [op |-> "clone_rubric", outcome |-> "OK", rubric |-> id,
                       program |-> target_program, category_value |-> NULL,
                       criteria_list |-> << >>]
    /\ UNCHANGED << now, siteVars, config, assignments, conflicts, scores, callVars >>

\* ------------------------------------------------------------ ResultsService
\* A Decimal quotient as the fraction << numerator, denominator >> in lowest
\* terms, the numerator in hundredths.
Fraction(n, d) == << n \div GCD(n, d), d \div GCD(n, d) >>

RECURSIVE SumWeighted(_)
SumWeighted(rows) ==
    IF rows = {} THEN 0
    ELSE LET x == CHOOSE y \in rows : TRUE
         IN x.weighted_score + SumWeighted(rows \ {x})

\* list(...): the members of a collection in the order of iteration.
RECURSIVE ListOf(_)
ListOf(S) ==
    IF S = {} THEN << >>
    ELSE LET x == CHOOSE y \in S : TRUE IN << x >> \o ListOf(S \ {x})

\* The sequence without its i-th member.
Without(seq, i) == SubSeq(seq, 1, i - 1) \o SubSeq(seq, i + 1, Len(seq))

\* sorted(...): the numbers of a list in ascending order.
RECURSIVE Sorted(_)
Sorted(seq) ==
    IF seq = << >> THEN << >>
    ELSE LET i == CHOOSE k \in DOMAIN seq : \A j \in DOMAIN seq : seq[k] <= seq[j]
         IN << seq[i] >> \o Sorted(Without(seq, i))

WeightedScores(scores_list) ==
    [i \in 1..Cardinality(scores_list) |-> ListOf(scores_list)[i].weighted_score]

JudgeTotals(scores_list) ==
    LET judges == ListOf({ x.judge : x \in scores_list })
    IN [i \in 1..Len(judges) |-> SumWeighted({ x \in scores_list : x.judge = judges[i] })]

Reversed(seq) == [i \in 1..Len(seq) |-> seq[Len(seq) + 1 - i]]

RECURSIVE SumSeq(_)
SumSeq(seq) == IF seq = << >> THEN 0 ELSE Head(seq) + SumSeq(Tail(seq))

AverageOfJudgeTotals(scores_list) ==
    Fraction(SumWeighted(scores_list), Cardinality({ x.judge : x \in scores_list }))

\* Lines 472-475: the mean of all weighted scores.
AVERAGE_ALL(scores_list) == Fraction(SumWeighted(scores_list), Cardinality(scores_list))

TopNOfAllScores(scores_list, top_n) ==
    LET n == IF top_n = 0 THEN 3 ELSE top_n
        ordered == Reversed(Sorted(WeightedScores(scores_list)))
        top_scores == SubSeq(ordered, 1, IF n < Len(ordered) THEN n ELSE Len(ordered))
    IN Fraction(SumSeq(top_scores), Len(top_scores))

\* Lines 477-491: the judges' totals, the top_n highest of them, their mean;
\* top_n is 0 when top_n_count is not set.
TOP_N(scores_list, top_n) ==
    LET n == IF top_n = 0 THEN 3 ELSE top_n
        ordered == Reversed(Sorted(JudgeTotals(scores_list)))
        top_scores == SubSeq(ordered, 1, IF n < Len(ordered) THEN n ELSE Len(ordered))
    IN Fraction(SumSeq(top_scores), Len(top_scores))

MedianOfJudgeTotals(scores_list) ==
    LET sorted_scores == Sorted(JudgeTotals(scores_list))
        n == Len(sorted_scores)
    IN IF n % 2 = 0
       THEN Fraction(sorted_scores[n \div 2] + sorted_scores[n \div 2 + 1], 2)
       ELSE Fraction(sorted_scores[n \div 2 + 1], 1)

\* Lines 493-500: the median of the weighted scores (Python indexes from 0).
MEDIAN(scores_list) ==
    LET sorted_scores == Sorted(WeightedScores(scores_list))
        n == Len(sorted_scores)
    IN IF n % 2 = 0
       THEN Fraction(sorted_scores[n \div 2] + sorted_scores[n \div 2 + 1], 2)
       ELSE Fraction(sorted_scores[n \div 2 + 1], 1)

\* Lines 502-504: the sum of the weighted scores.
WEIGHTED(scores_list) == Fraction(SumWeighted(scores_list), 1)

apply_calculation_method(scores_list, method, top_n) ==
    IF scores_list = {} THEN Fraction(0, 1)
    ELSE IF method = "AVERAGE_ALL" THEN AVERAGE_ALL(scores_list)
    ELSE IF method = "TOP_N" THEN TOP_N(scores_list, top_n)
    ELSE IF method = "MEDIAN" THEN MEDIAN(scores_list)
    ELSE IF method = "WEIGHTED" THEN WEIGHTED(scores_list)
    ELSE AVERAGE_ALL(scores_list)

ProgramScores(registration) == { x \in scores : x.program = registration.program }

\* Lines 422-425: the rows of the registration.
RegistrationScores(registration) ==
    { x \in scores : x.program = registration.program /\ x.registration = registration.id }

\* Lines 427-432: per (judge, criteria) the row with the highest
\* revision_number, of equal ones the row met first (primary key order).
latest_scores(rows) ==
    { x \in rows : \A y \in rows :
         (y.judge = x.judge /\ y.criteria = x.criteria /\ y # x) =>
            \/ y.revision_number < x.revision_number
            \/ y.revision_number = x.revision_number /\ x.id < y.id }

\* Lines 444-452: the returned dict (participant_name is left out);
\* float(final_score) keeps the order of the values, the exact value is kept.
AggregateDict(registration) ==
    LET cfg == config[registration.program]
        scores_list == latest_scores(RegistrationScores(registration))
        final_score == IF cfg # NoConfig
                       THEN apply_calculation_method(scores_list, cfg.calculation_method,
                                                     cfg.top_n_count)
                       ELSE apply_calculation_method(scores_list, "AVERAGE_ALL", 0)
    IN [registration_id |-> registration.id,
        participant_id |-> registration.participant,
        category_value |-> registration.category_value,
        final_score |-> final_score,
        judges_count |-> Cardinality({ x.judge : x \in scores_list }),
        scores_count |-> Cardinality(scores_list)]

\* ResultsService.aggregate_scores
aggregate_scores(registration) ==
    /\ reply' = [op |-> "aggregate_scores",
                 scores_list |-> latest_scores(RegistrationScores(registration))]
                @@ AggregateDict(registration)
    /\ UNCHANGED << now, siteVars, config, assignments, conflicts, rubrics, criteria, scores, callVars >>

\* ----------------------------------------------------------------- leaderboard
\* The database's comparison of two strings in an exact lookup: equal, or equal
\* up to case when the column's collation is case-insensitive.
Upper(s) ==
    CASE s = "paid" -> "PAID"
      [] s = "pending" -> "PENDING"
      [] s = "cancelled" -> "CANCELLED"
      [] s = "refunded" -> "REFUNDED"
      [] OTHER -> s

Exact(stored, value) == stored = value \/ (db_ci /\ Upper(stored) = Upper(value))

\* Python truth value of an optional string: None and '' are false.
Truthy(s) == s \notin {NULL, ""}

\* Line 368: f"leaderboard_{program.id}_{category_value or 'all'}"; the id is a
\* number, so the string is determined by, and determines, this pair.
CategoryOrAll(category_value) == IF Truthy(category_value) THEN category_value ELSE "all"
cache_key(program_id, category_value) == << program_id, CategoryOrAll(category_value) >>

\* cache.get: the stored value of an entry that has not expired.
CacheHit(key) == \E e \in cache : e.key = key /\ now < e.expires
CacheValue(key) == (CHOOSE e \in cache : e.key = key).value

\* cache.set(key, value, timeout)
CacheSet(key, value, timeout) ==
    { e \in cache : e.key # key }
    \cup { [key |-> key, value |-> value, expires |-> now + timeout] }

\* Lines 376-382: Registration.objects.filter(program=program, status='PAID'),
\* narrowed to the category when one is given.
EligibleRegistrations(program, category_value) ==
    { r \in registrations :
        /\ r.program = program
        /\ Exact(r.status, "PAID")
        /\ Truthy(category_value) => Exact(r.category_value, category_value) }

\* Registration.Meta.ordering = ['-created_at']: newest first; rows are created
\* in the order of their ids.
RECURSIVE NewestFirst(_)
NewestFirst(rows) ==
    IF rows = {} THEN << >>
    ELSE LET r == CHOOSE x \in rows : \A y \in rows : y.id <= x.id
         IN << r >> \o NewestFirst(rows \ {r})

Less(a, b) == a[1] * b[2] < b[1] * a[2]

\* Line 391: results.sort(key=final_score, reverse=True); the sort is stable,
\* results of equal score keep the order they had.
SortKeepsInputOrder(results) == results

RECURSIVE SortDescending(_)
SortDescending(results) ==
    IF results = << >> THEN << >>
    ELSE LET n == Len(results)
             rest == SortDescending(SubSeq(results, 1, n - 1))
             x == results[n]
             k == Cardinality({ i \in DOMAIN rest :
                                  ~Less(rest[i].final_score, x.final_score) })
         IN SubSeq(rest, 1, k) \o << x >> \o SubSeq(rest, k + 1, Len(rest))

\* Lines 394-395: result['rank'] = position, counted from 1.
AddRankings(results) == [i \in DOMAIN results |-> [rank |-> i] @@ results[i]]

\* Lines 375-395: the list computed from the stored rows.
Leaderboard(program, category_value) ==
    LET ordered == NewestFirst(EligibleRegistrations(program, category_value))
    IN AddRankings(SortDescending([i \in DOMAIN ordered |-> AggregateDict(ordered[i])]))

CACHE_TIMEOUT == 300

\* ResultsService.calculate_leaderboard
calculate_leaderboard(program, category_value, use_cache) ==
    LET key == cache_key(program, category_value)
        call_args == [op |-> "calculate_leaderboard", program |-> program,
                      category_value |-> category_value, use_cache |-> use_cache]
    IN /\ IF use_cache /\ CacheHit(key) /\ CacheValue(key) # << >>
          THEN /\ reply' = [results |-> CacheValue(key), cached |-> TRUE] @@ call_args
               /\ cache' = cache
          ELSE LET results == Leaderboard(program, category_value)
               IN /\ reply' = [results |-> results, cached |-> FALSE] @@ call_args
                  /\ cache' = IF use_cache THEN CacheSet(key, results, CACHE_TIMEOUT)
                              ELSE cache
       /\ UNCHANGED << now, registrations, db_ci, points, config, assignments, conflicts,
                       rubrics, criteria, scores, callVars >>

\* register.Approval.post_process: an approval moves its registration to the
\* approval's status; a paid registration is not cancelled, a cancelled one is
\* not paid, only a paid one is refunded.
post_process(registration, status) ==
    /\ registration \in registrations
    /\ ~(status = "cancelled" /\ registration.status = "paid")
    /\ ~(status = "paid" /\ registration.status = "cancelled")
    /\ ~(status = "refunded" /\ registration.status # "paid")
    /\ registration.status # status
    /\ registrations' = (registrations \ {registration})
                          \cup { [registration EXCEPT !.status = status] }
    /\ UNCHANGED << now, cache, db_ci, points, adminVars, scores, callVars >>

\* ResultsService.cache_results
cache_results(program_id, results) ==
    /\ cache' = CacheSet(cache_key(program_id, NULL), results, CACHE_TIMEOUT)
    /\ UNCHANGED << now, registrations, db_ci, points, adminVars, scores, callVars >>

\* ----------------------------------------------------------------- bulk upload
\* Rows the bulk serializer looks up by id: Judge, Participant, JudgingCriteria.
KnownJudges == {1}
KnownParticipants == {1}
KnownCriteria == {1, 2}

\* BulkPointSerializer: validate_criteria, validate_judge, validate_participant
\* each report an id without a row; validate() runs when the fields passed and
\* reports a score outside 0..10.  The value is the item's entry in
\* serializer.errors, empty for a valid item.
item_errors(item) ==
    LET fields == (IF item.criteria \in KnownCriteria THEN {} ELSE {"criteria"})
                  \cup (IF item.judge \in KnownJudges THEN {} ELSE {"judge"})
                  \cup (IF item.participant \in KnownParticipants THEN {} ELSE {"participant"})
    IN IF fields # {} THEN fields
       ELSE IF item.score < 0 \/ item.score > 1000 THEN {"non_field_errors"}
       ELSE {}

\* ListSerializer.is_valid (many=True): every item must be valid.
is_valid(data) == \A i \in DOMAIN data : item_errors(data[i]) = {}

PointKey(x) == << x.judge, x.participant, x.criteria >>

\* Lines 119-134: one item is written over the row of its judge, participant
\* and criteria, or inserted as a new row.
Upsert(rows, item) ==
    IF \E x \in rows : PointKey(x) = PointKey(item)
    THEN { IF x = FirstByPk({ y \in rows : PointKey(y) = PointKey(item) })
           THEN [id |-> x.id] @@ item ELSE x : x \in rows }
    ELSE rows \cup { [id |-> MaxId(rows) + 1] @@ item }

RECURSIVE UpsertAll(_, _)
UpsertAll(rows, data) ==
    IF data = << >> THEN rows ELSE UpsertAll(Upsert(rows, Head(data)), Tail(data))

\* BulkScoreView.post
post(data) ==
    /\ IF is_valid(data)
       THEN LET written == UpsertAll(points, data)
            IN /\ points' = written
               /\ reply' = [op |-> "post", data |-> data, status |-> 200,
                            created |-> { x.id : x \in written } \ { x.id : x \in points },
                            updated |-> { x.id : x \in { y \in points :
                                            \E i \in DOMAIN data : PointKey(data[i]) = PointKey(y) } },
                            errors |-> << >>]
       ELSE /\ points' = points
            /\ reply' = [op |-> "post", data |-> data, status |-> 400,
                         created |-> {}, updated |-> {},
                         errors |-> [i \in DOMAIN data |-> item_errors(data[i])]]
    /\ UNCHANGED << now, registrations, cache, db_ci, config, assignments, conflicts,
                    rubrics, criteria, scores, callVars >>

\* ------------------------------------------------------ administrator actions
AssignmentKey(a) == << a.program, a.judge, a.category_value >>

\* Lines 546-550: filter(program, judge, category_value).first()
NoAssignment == [program |-> 0]
FirstByKey(rows, key) ==
    IF \E a \in rows : AssignmentKey(a) = key
    THEN CHOOSE a \in rows : AssignmentKey(a) = key
    ELSE NoAssignment

ReactivatesAnyStatus(a) == TRUE

\* Lines 553-557: only a CANCELLED assignment is set back to ACTIVE.
Reactivated(a) == a.status = "CANCELLED"

\* JudgeAssignmentService.assign_judge
assign_judge(program, judge, category_value) ==
    LET key == << program, judge, category_value >>
        existing == FirstByKey(assignments, key)
        call_args == [op |-> "assign_judge", program |-> program, judge |-> judge,
                      category_value |-> category_value]
    IN /\ IF existing # NoAssignment
          THEN IF Reactivated(existing)
               THEN /\ assignments' = (assignments \ {existing})
                                        \cup { [existing EXCEPT !.status = "ACTIVE"] }
                    /\ reply' = [outcome |-> "reactivated"] @@ call_args
               ELSE /\ assignments' = assignments
                    /\ reply' = [outcome |-> "ValidationError"] @@ call_args
          ELSE /\ Cardinality(assignments) < MaxAssignments
               /\ assignments' = assignments \cup
                    { [program |-> program, judge |-> judge,
                       category_value |-> category_value, status |-> "ACTIVE"] }
               /\ reply' = [outcome |-> "created"] @@ call_args
       /\ UNCHANGED << now, siteVars, config, conflicts, rubrics, criteria, scores, callVars >>

\* Lines 592-600: the ACTIVE assignments of the program, with a category only
\* those for all categories or for that category.
SelectedAssignments(program, category_value) ==
    { a \in assignments :
        /\ a.program = program
        /\ a.status = "ACTIVE"
        /\ Truthy(category_value) => a.category_value \in {"", category_value} }

\* The orders in which a queryset without ordering can yield the rows.
Orders(rows) ==
    { order \in [1..Cardinality(rows) -> rows] : \A a \in rows : \E i \in DOMAIN order : order[i] = a }

\* Lines 623-627: distribution[assignment.judge_id] = count, a later
\* assignment of the same judge replacing the earlier entry.
RECURSIVE Distribute(_, _, _, _)
Distribute(order, idx, participants_per_judge, remainder) ==
    IF idx = 0 THEN << >>
    ELSE LET count == participants_per_judge + (IF idx - 1 < remainder THEN 1 ELSE 0)
             earlier == Distribute(order, idx - 1, participants_per_judge, remainder)
         IN (order[idx].judge :> count) @@ earlier

\* JudgeAssignmentService.distribute_workload
distribute_workload(program, category_value) ==
    LET selected == SelectedAssignments(program, category_value)
        total_participants == Cardinality(EligibleRegistrations(program, category_value))
        total_judges == Cardinality(selected)
        call_args == [op |-> "distribute_workload", program |-> program,
                      category_value |-> category_value]
    IN /\ IF selected = {}
          THEN reply' = [iterated |-> << >>, distribution |-> << >>] @@ call_args
          ELSE \E order \in Orders(selected) :
                 reply' = [iterated |-> order,
                           distribution |-> Distribute(order, total_judges,
                                                       total_participants \div total_judges,
                                                       total_participants % total_judges)]
                          @@ call_args
       /\ UNCHANGED << now, siteVars, config, assignments, conflicts, rubrics, criteria,
                       scores, callVars >>

UpdateStatus(queryset, status) ==
    /\ queryset # {}
    /\ assignments' = { IF a \in queryset THEN [a EXCEPT !.status = status] ELSE a
                        : a \in assignments }
    /\ UNCHANGED << now, siteVars, config, conflicts, rubrics, criteria, scores, callVars, reply >>

\* JudgeAssignmentAdmin actions on the selected rows
pause_assignments(queryset) == UpdateStatus(queryset, "PAUSED")
resume_assignments(queryset) == UpdateStatus(queryset, "ACTIVE")
mark_completed(queryset) == UpdateStatus(queryset, "COMPLETED")

\* JudgeAssignmentAdmin.list_editable = ('status',): any status can be typed in.
edit_assignment_status(a, status) ==
    /\ a.status # status
    /\ UpdateStatus({a}, status)

\* ConflictOfInterestAdmin add form: a new conflict starts PENDING and the pair
\* (judge, participant) is unique.
flag_conflict(judge, participant) ==
    /\ \A x \in conflicts : << x.judge, x.participant >> # << judge, participant >>
    /\ conflicts' = conflicts \cup
         { [judge |-> judge, participant |-> participant, status |-> "PENDING",
            reviewed_by |-> NULL, reviewed_at |-> NoDeadline] }
    /\ UNCHANGED << now, siteVars, config, assignments, rubrics, criteria, scores, callVars, reply >>

ReviewConflicts(queryset, status) ==
    /\ queryset # {}
    /\ conflicts' = { IF x \in queryset
                      THEN [x EXCEPT !.status = status, !.reviewed_by = "admin"] ELSE x
                      : x \in conflicts }
    /\ UNCHANGED << now, siteVars, config, assignments, rubrics, criteria, scores, callVars, reply >>

\* ConflictOfInterestAdmin actions on the selected rows
approve_conflicts(queryset) == ReviewConflicts(queryset, "APPROVED")
reject_conflicts(queryset) == ReviewConflicts(queryset, "REJECTED")

\* JudgingScoreAdmin change form: raw_score is an editable field; the form runs
\* the field validator (raw_score >= 0) and JudgingScore.clean (raw_score <=
\* max_score), then save() recomputes the derived fields from the criterion as
\* it is now.
change_score(s, raw_score) ==
    /\ s \in scores
    /\ raw_score # s.raw_score
    /\ 0 <= raw_score /\ raw_score <= s.max_score
    /\ LET crit == CHOOSE k \in criteria : k.id = s.criteria
       IN scores' = (scores \ {s}) \cup
            { [s EXCEPT !.raw_score = raw_score,
                        !.score_percentage = score_percentage(raw_score, s.max_score),
                        !.weighted_score = weighted_score(raw_score, [crit EXCEPT !.max_score = s.max_score],
                                                          RubricOf(crit))] }
    /\ UNCHANGED << now, siteVars, adminVars, callVars >>

\* JudgingScoreAdmin keeps the admin's delete action for the selected rows;
\* previous_score of a row that pointed to a deleted row is SET_NULL.
delete_scores(queryset) ==
    /\ queryset # {}
    /\ queryset \subseteq scores
    /\ scores' = { IF \E d \in queryset : KeyOf(d) = KeyOf(x) /\ d.id = x.previous_score
                   THEN [x EXCEPT !.previous_score = 0] ELSE x : x \in scores \ queryset }
    /\ UNCHANGED << now, siteVars, adminVars, callVars >>

\* RegistrationAdmin deletes a registration: JudgingScore.registration is
\* on_delete=CASCADE, so its score rows go with it.
delete_registration(registration) ==
    /\ \E x \in scores : x.registration = registration.id
    /\ scores' = { x \in scores : x.registration # registration.id }
    /\ UNCHANGED << now, siteVars, adminVars, callVars >>

\* ------------------------------------------------------------ specifications
\* scores_dict: criterion id -> score, a dict, so no criterion occurs twice;
\* the sequence is the dict's iteration order.
ScoreDicts(items, n) ==
    { d \in UNION { [1..k -> items] : k \in 0..n } :
        \A i, j \in DOMAIN d : i # j => d[i].criteria_id # d[j].criteria_id }

\* Program 1 as set up by its administrators: a general rubric of two criteria
\* (weights 0.6 and 0.4, max_score 10, 100 points), judge j1 assigned to all
\* categories, a scoring window from 1 to 2.
FixtureRubrics ==
    { [id |-> 1, program |-> 1, category_value |-> NULL,
       total_possible_points |-> 10000, is_active |-> TRUE] }
FixtureCriteria ==
    { [id |-> 1, rubric |-> 1, name |-> "c1", max_score |-> 1000, weight |-> 600],
      [id |-> 2, rubric |-> 1, name |-> "c2", max_score |-> 1000, weight |-> 400] }
FixtureAssignment(status) ==
    [program |-> 1, judge |-> "j1", category_value |-> "", status |-> status]
FixtureConflict(status) ==
    [judge |-> "j1", participant |-> 1, status |-> status,
     reviewed_by |-> "admin", reviewed_at |-> NoDeadline]
Config(a, d, m) ==
    [program |-> 1, scoring_start |-> 1, scoring_end |-> 2, allow_revisions |-> a,
     revision_deadline |-> d, max_revisions_per_score |-> m]
FixtureConfig == Config(TRUE, NoDeadline, 0)
ConfigChoices ==
    { Config(a, d, 0) : a \in BOOLEAN, d \in {NoDeadline, << 1 >>} }
    \cup { Config(TRUE, NoDeadline, 1) }

\* Both registrations are paid (Registration.Status.PAID = 'paid'), nothing is
\* cached, no point has been uploaded, and the database compares strings
\* exactly.
InitSite ==
    /\ registrations = { [status |-> "paid"] @@ r : r \in Registrations }
    /\ cache = {}
    /\ db_ci = FALSE
    /\ points = {}

InitCalls ==
    /\ scores = {}
    /\ pc = [c \in Calls |-> "idle"]
    /\ call = [c \in Calls |-> NoCall]
    /\ pending = [c \in Calls |-> {}]
    /\ result = [c \in Calls |-> "none"]
    /\ reply = NoReply
    /\ InitSite

\* One caller at a time; the program is in any of the set-ups an administrator
\* can have left it in, and the clock runs through and past the window.
InitSeq ==
    /\ now = 0
    /\ config \in { [p \in Programs |-> IF p = 1 THEN cfg ELSE NoConfig] :
                      cfg \in ConfigChoices \cup {NoConfig} }
    /\ assignments \in { {}, {FixtureAssignment("ACTIVE")}, {FixtureAssignment("PAUSED")} }
    /\ conflicts \in { {}, {FixtureConflict("REJECTED")} }
    /\ \/ rubrics = {} /\ criteria = {}
       \/ rubrics = FixtureRubrics /\ criteria = FixtureCriteria
    /\ InitCalls

Next ==
    \/ Tick
    \/ \E judge \in Judges, registration \in Registrations,
          scores_dict \in ScoreDicts(Items, MaxBatch) :
            SubmitBegin(1, judge, registration, scores_dict)
    \/ SubmitGates(1)
    \/ SubmitLookup(1)
    \/ SubmitWrite(1)
    \/ SubmitCommit(1)

Spec == InitSeq /\ [][Next]_vars

\* Two callers at once for judge j1 and registration 1, inside the window of a
\* program that allows revisions without limit.
ItemsConc == { [criteria_id |-> k, raw_score |-> 1000] : k \in {1, 2} }

InitGood ==
    /\ config = [p \in Programs |-> IF p = 1 THEN FixtureConfig ELSE NoConfig]
    /\ assignments = {FixtureAssignment("ACTIVE")}
    /\ conflicts = {}
    /\ rubrics = FixtureRubrics
    /\ criteria = FixtureCriteria
    /\ InitCalls

InitConc == now = 1 /\ InitGood

NextConc ==
    \/ \E c \in Calls, registration \in { r \in Registrations : r.id = 1 },
          scores_dict \in ScoreDicts(ItemsConc, MaxBatch) :
            SubmitBegin(c, "j1", registration, scores_dict)
    \/ \E c \in Calls : SubmitGates(c)
    \/ \E c \in Calls : SubmitLookup(c)
    \/ \E c \in Calls : SubmitWrite(c)
    \/ \E c \in Calls : DeadlockAbort(c)
    \/ \E c \in Calls : SubmitCommit(c)

SpecConc == InitConc /\ [][NextConc]_vars

\* One caller, inside the window, while administrators assign judges and pause,
\* resume, complete or edit the assignments.
OneItem == { << [criteria_id |-> 1, raw_score |-> 1000] >> }

AssignmentRows ==
    { [program |-> program, judge |-> judge, category_value |-> category_value,
       status |-> status]
      : program \in Programs, judge \in Judges, category_value \in AssignmentCategories,
        status \in STATUS_CHOICES }

\* The tables assign_judge and the administrators can have produced: up to
\* MaxAssignments rows, no two for the same program, judge and category.
Rosters ==
    { roster \in UNION { { { f[i] : i \in 1..n } : f \in [1..n -> AssignmentRows] }
                         : n \in 0..MaxAssignments } :
        \A a, b \in roster : AssignmentKey(a) = AssignmentKey(b) => a = b }

InitAssign ==
    /\ now = 1
    /\ config = [p \in Programs |-> IF p = 1 THEN FixtureConfig ELSE NoConfig]
    /\ assignments \in Rosters
    /\ conflicts = {}
    /\ rubrics = FixtureRubrics
    /\ criteria = FixtureCriteria
    /\ InitCalls

NextAssign ==
    \/ \E queryset \in SUBSET assignments : pause_assignments(queryset)
    \/ \E queryset \in SUBSET assignments : resume_assignments(queryset)
    \/ \E queryset \in SUBSET assignments : mark_completed(queryset)
    \/ \E a \in assignments, status \in STATUS_CHOICES : edit_assignment_status(a, status)
    \/ \E registration \in Registrations, scores_dict \in OneItem :
          SubmitBegin(1, "j1", registration, scores_dict)
    \/ SubmitGates(1)
    \/ SubmitLookup(1)
    \/ SubmitWrite(1)
    \/ SubmitCommit(1)

SpecAssign == InitAssign /\ [][NextAssign]_vars

\* The roster of judges.  Administrators assign judges to programs and
\* categories, starting from an empty table, and pause, complete, cancel and
\* resume the assignments.
RosterCategories == {"", "A"}

InitRoster ==
    /\ now = 0
    /\ config = [p \in Programs |-> NoConfig]
    /\ assignments = {}
    /\ conflicts = {}
    /\ rubrics = {}
    /\ criteria = {}
    /\ InitCalls

NextRoster ==
    \/ \E program \in Programs, judge \in Judges, category_value \in RosterCategories :
          assign_judge(program, judge, category_value)
    \/ \E a \in assignments, status \in STATUS_CHOICES : edit_assignment_status(a, status)

SpecRoster == InitRoster /\ [][NextRoster]_vars

\* One caller, inside the window, while administrators flag conflicts and
\* approve or reject them.
InitConflict == now = 1 /\ InitGood

NextConflict ==
    \/ \E judge \in Judges, participant \in Participants : flag_conflict(judge, participant)
    \/ \E queryset \in SUBSET conflicts : approve_conflicts(queryset)
    \/ \E queryset \in SUBSET conflicts : reject_conflicts(queryset)
    \/ \E registration \in Registrations, scores_dict \in OneItem :
          SubmitBegin(1, "j1", registration, scores_dict)
    \/ SubmitGates(1)
    \/ SubmitLookup(1)
    \/ SubmitWrite(1)
    \/ SubmitCommit(1)

SpecConflict == InitConflict /\ [][NextConflict]_vars

\* One caller, inside the window of a program that allows revisions up to any
\* of the limits max_revisions_per_score = 0 (no limit), 1, 2 or 3.
RevisionLimits == {0, 1, 2, 3}

InitLimit ==
    /\ now = 1
    /\ config \in { [p \in Programs |-> IF p = 1 THEN Config(TRUE, NoDeadline, m) ELSE NoConfig] :
                      m \in RevisionLimits }
    /\ assignments = {FixtureAssignment("ACTIVE")}
    /\ conflicts = {}
    /\ rubrics = FixtureRubrics
    /\ criteria = FixtureCriteria
    /\ InitCalls

NextLimit ==
    \/ \E registration \in Registrations, scores_dict \in ScoreDicts(ItemsConc, MaxBatch) :
          SubmitBegin(1, "j1", registration, scores_dict)
    \/ SubmitGates(1)
    \/ SubmitLookup(1)
    \/ SubmitWrite(1)
    \/ SubmitCommit(1)

SpecLimit == InitLimit /\ [][NextLimit]_vars

\* Rubrics are created and cloned for both programs, for the general pair
\* (category_value NULL), the empty category and category "A"; the weights of
\* the criteria lists sum to 1.0, to 1.0 -+ 0.01, to 1.0 -+ 0.011 and to 0.5,
\* and one list repeats a criterion name.
RubricCategories == {NULL, "", "A"}

Criterion(name, weight) == [name |-> name, max_score |-> 1000, weight |-> weight]

CriteriaLists ==
    { << Criterion("c1", 600), Criterion("c2", 400) >>,
      << Criterion("c1", 990) >>,
      << Criterion("c1", 600), Criterion("c2", 410) >>,
      << Criterion("c1", 989) >>,
      << Criterion("c1", 600), Criterion("c2", 411) >>,
      << Criterion("c1", 500) >>,
      << Criterion("c1", 500), Criterion("c1", 500) >> }

InitRubric ==
    /\ now = 1
    /\ config = [p \in Programs |-> NoConfig]
    /\ assignments = {}
    /\ conflicts = {}
    /\ rubrics = {}
    /\ criteria = {}
    /\ InitCalls

NextRubric ==
    \/ \E program \in Programs, category_value \in RubricCategories,
          criteria_list \in CriteriaLists :
            create_rubric(program, category_value, criteria_list, 10000)
    \/ \E source_rubric \in rubrics, target_program \in Programs :
          clone_rubric(source_rubric, target_program)

SpecRubric == InitRubric /\ [][NextRubric]_vars

\* Two callers create rubrics for program 1 at the same time, general ones
\* and ones for category "A", in a table that is empty or holds an active
\* rubric of either kind.
ConcurrentLists ==
    { << Criterion("c1", 600), Criterion("c2", 400) >>,
      << Criterion("c1", 500), Criterion("c1", 500) >>,
      << Criterion("c1", 500) >> }

InitRubricConc ==
    /\ now = 1
    /\ config = [p \in Programs |-> NoConfig]
    /\ assignments = {}
    /\ conflicts = {}
    /\ rubrics \in { {} } \cup { { NewRubric(1, 1, category_value, 10000) }
                                 : category_value \in {NULL, "A"} }
    /\ criteria = {}
    /\ InitCalls

NextRubricConc ==
    \/ \E c \in Calls, category_value \in {NULL, "A"}, criteria_list \in ConcurrentLists :
          RubricBegin(c, 1, category_value, criteria_list)
    \/ \E c \in Calls : RubricDeactivate(c)
    \/ \E c \in Calls : RubricInsert(c)
    \/ \E c \in Calls : RubricCommit(c)

SpecRubricConc == InitRubricConc /\ [][NextRubricConc]_vars

\* One caller, inside the window, while rubrics are created and cloned.  Judge
\* j1 is assigned to both programs; program 2 has a registration whose
\* category_value is the empty string and one in category "B", for which no
\* rubric is ever created.
ResolveRegistrations ==
    Registrations \cup
    { [id |-> 3, program |-> 2, category_value |-> "", participant |-> 1],
      [id |-> 4, program |-> 2, category_value |-> "B", participant |-> 2] }

InitResolve ==
    /\ now = 1
    /\ config = [p \in Programs |-> [FixtureConfig EXCEPT !.program = p]]
    /\ assignments = { [FixtureAssignment("ACTIVE") EXCEPT !.program = p] : p \in Programs }
    /\ conflicts = {}
    /\ rubrics = {}
    /\ criteria = {}
    /\ InitCalls

NextResolve ==
    \/ \E program \in Programs, category_value \in RubricCategories :
          create_rubric(program, category_value,
                        << Criterion("c1", 600), Criterion("c2", 400) >>, 10000)
    \/ \E source_rubric \in rubrics, target_program \in Programs :
          clone_rubric(source_rubric, target_program)
    \/ \E registration \in ResolveRegistrations, scores_dict \in OneItem :
          SubmitBegin(1, "j1", registration, scores_dict)
    \/ SubmitGates(1)
    \/ SubmitLookup(1)
    \/ SubmitWrite(1)
    \/ SubmitCommit(1)

SpecResolve == InitResolve /\ [][NextResolve]_vars

\* One caller, inside the window, while administrators use the JudgingScore
\* and Registration admin pages.
EditedScores == {500, 1000}

InitAudit == now = 1 /\ InitGood

NextAudit ==
    \/ \E registration \in Registrations, scores_dict \in ScoreDicts(ItemsConc, MaxBatch) :
          SubmitBegin(1, "j1", registration, scores_dict)
    \/ SubmitGates(1)
    \/ SubmitLookup(1)
    \/ SubmitWrite(1)
    \/ SubmitCommit(1)
    \/ \E s \in scores, raw_score \in EditedScores : change_score(s, raw_score)
    \/ \E queryset \in SUBSET scores : delete_scores(queryset)
    \/ \E registration \in Registrations : delete_registration(registration)

SpecAudit == InitAudit /\ [][NextAudit]_vars

\* One caller, inside the window.  Besides the general rubric program 1 has a
\* rubric for category "A" whose criteria have max_score 3 and 7 and weights
\* 0.333 and 0.667, so that percentages and weighted scores need rounding.
CategoryRubric ==
    [id |-> 2, program |-> 1, category_value |-> "A",
     total_possible_points |-> 10000, is_active |-> TRUE]
CategoryCriteria ==
    { [id |-> 3, rubric |-> 2, name |-> "c3", max_score |-> 300, weight |-> 333],
      [id |-> 4, rubric |-> 2, name |-> "c4", max_score |-> 700, weight |-> 667] }

ScoringItems ==
    { [criteria_id |-> 1, raw_score |-> 800], [criteria_id |-> 2, raw_score |-> 600],
      [criteria_id |-> 3, raw_score |-> 100], [criteria_id |-> 3, raw_score |-> 200],
      [criteria_id |-> 4, raw_score |-> 100] }

InitScoring ==
    /\ now = 1
    /\ config = [p \in Programs |-> IF p = 1 THEN FixtureConfig ELSE NoConfig]
    /\ assignments = {FixtureAssignment("ACTIVE")}
    /\ conflicts = {}
    /\ rubrics = FixtureRubrics \cup {CategoryRubric}
    /\ criteria = FixtureCriteria \cup CategoryCriteria
    /\ InitCalls

NextScoring ==
    \/ \E registration \in Registrations, scores_dict \in ScoreDicts(ScoringItems, MaxBatch) :
          SubmitBegin(1, "j1", registration, scores_dict)
    \/ SubmitGates(1)
    \/ SubmitLookup(1)
    \/ SubmitWrite(1)
    \/ SubmitCommit(1)

SpecScoring == InitScoring /\ [][NextScoring]_vars

\* Leaderboard computation after the judges have scored.  Three judges are
\* assigned to program 1; each has submitted one of the ballots below for
\* registration 1 (or none), judge j1 possibly a score for registration 2 as
\* well; the stored rows are the ones submit_scores writes for these ballots.
\* The program has no configuration or one with any of the methods, TOP_N
\* with top_n_count unset (0), 1, 2 or 3.
ResultJudges == Judges \cup {"j3"}

Ballot(c1, c2) ==
    { [criteria_id |-> 1, raw_score |-> v] : v \in c1 }
    \cup { [criteria_id |-> 2, raw_score |-> v] : v \in c2 }

Ballots ==
    { Ballot({}, {}), Ballot({500}, {500}), Ballot({700}, {700}), Ballot({900}, {900}),
      Ballot({}, {200}), Ballot({}, {225}), Ballot({}, {250}), Ballot({500}, {250}),
      Ballot({}, {500}), Ballot({}, {1000}) }

BallotRows(judge, registration, ballot) ==
    { NewScore(1, registration.program, registration.id, judge,
               CHOOSE k \in criteria : k.id = item.criteria_id, item.raw_score, 1, 0)
      : item \in ballot }

ResultsConfig(method, top_n) ==
    [calculation_method |-> method, top_n_count |-> top_n] @@ FixtureConfig

ResultsConfigs ==
    { ResultsConfig(method, 0) : method \in {"AVERAGE_ALL", "MEDIAN", "WEIGHTED"} }
    \cup { ResultsConfig("TOP_N", top_n) : top_n \in 0..3 }

InitResults ==
    /\ now = 3
    /\ config \in { [p \in Programs |-> IF p = 1 THEN cfg ELSE NoConfig] :
                      cfg \in ResultsConfigs \cup {NoConfig} }
    /\ assignments = { [FixtureAssignment("ACTIVE") EXCEPT !.judge = j] : j \in ResultJudges }
    /\ conflicts = {}
    /\ rubrics = FixtureRubrics
    /\ criteria = FixtureCriteria
    /\ scores \in
         { UNION { BallotRows(j, CHOOSE r \in Registrations : r.id = 1, b[j]) : j \in ResultJudges }
           \cup BallotRows("j1", CHOOSE r \in Registrations : r.id = 2, other)
           : b \in [ResultJudges -> Ballots], other \in {Ballot({}, {}), Ballot({1000}, {})} }
    /\ pc = [c \in Calls |-> "idle"]
    /\ call = [c \in Calls |-> NoCall]
    /\ pending = [c \in Calls |-> {}]
    /\ result = [c \in Calls |-> "none"]
    /\ reply = NoReply
    /\ InitSite

NextResults == \E registration \in Registrations : aggregate_scores(registration)

SpecResults == InitResults /\ [][NextResults]_vars

\* The leaderboard of a scored programme.  Program 1 has three registrations
\* (two in category "A", one without a category), program 2 has one.  The
\* first is paid, the second paid or pending, the third paid or cancelled.
\* Judge j1 has scored each registration of program 1 on criterion 2 with 5.00
\* or 9.00, or not at all; j1 is assigned to program 1 for all categories.
\* Callers ask for the leaderboard of either program, unfiltered or for a
\* category, computed from the stored rows, and for the judges' workload.
BoardRegistrations ==
    { [id |-> 1, program |-> 1, category_value |-> "A", participant |-> 1],
      [id |-> 2, program |-> 1, category_value |-> NULL, participant |-> 2],
      [id |-> 3, program |-> 1, category_value |-> "A", participant |-> 3],
      [id |-> 4, program |-> 2, category_value |-> NULL, participant |-> 1] }

BoardStatuses ==
    { [r \in 1..4 |-> IF r = 2 THEN second ELSE IF r = 3 THEN third ELSE "paid"]
      : second \in {"paid", "pending"}, third \in {"paid", "cancelled"} }
BoardBallots == { Ballot({}, {}), Ballot({}, {500}), Ballot({}, {900}) }
BoardCategories == {NULL, "", "A", "all"}

BoardRows(status) == { [status |-> status[r.id]] @@ r : r \in BoardRegistrations }
BoardScores(ballot) ==
    UNION { BallotRows("j1", r, ballot[r.id]) : r \in { x \in BoardRegistrations : x.id \in 1..3 } }

InitBoard ==
    /\ now = 0
    /\ config = [p \in Programs |-> NoConfig]
    /\ assignments = { FixtureAssignment("ACTIVE") }
    /\ conflicts = {}
    /\ rubrics = FixtureRubrics
    /\ criteria = FixtureCriteria
    /\ registrations \in { BoardRows(status) : status \in BoardStatuses }
    /\ scores \in { BoardScores(ballot) : ballot \in [1..3 -> BoardBallots] }
    /\ pc = [c \in Calls |-> "idle"]
    /\ call = [c \in Calls |-> NoCall]
    /\ pending = [c \in Calls |-> {}]
    /\ result = [c \in Calls |-> "none"]
    /\ reply = NoReply
    /\ cache = {}
    /\ db_ci \in BOOLEAN
    /\ points = {}

NextBoard ==
    \/ \E program \in Programs, category_value \in BoardCategories :
          calculate_leaderboard(program, category_value, FALSE)
    \/ \E program \in Programs, category_value \in BoardCategories :
          distribute_workload(program, category_value)

SpecBoard == InitBoard /\ [][NextBoard]_vars

\* The cached leaderboard.  The registrations are scored; of program 1 the
\* second is paid, the third cancelled and the first, the only other one in
\* category "A", still pending and paid later.  An administrator corrects
\* the score of registration 1 while callers ask for the leaderboards of
\* program 1 through the cache and the clock runs past the cache timeout.
Corrections == {500, 900}
CacheCategories == {NULL, "A"}

InitCache ==
    /\ now = 0
    /\ config = [p \in Programs |-> NoConfig]
    /\ assignments = { FixtureAssignment("ACTIVE") }
    /\ conflicts = {}
    /\ rubrics = FixtureRubrics
    /\ criteria = FixtureCriteria
    /\ registrations = BoardRows([r \in 1..4 |-> IF r = 1 THEN "pending"
                                                ELSE IF r = 3 THEN "cancelled" ELSE "paid"])
    /\ scores = BoardScores([r \in 1..3 |-> Ballot({}, {500})])
    /\ pc = [c \in Calls |-> "idle"]
    /\ call = [c \in Calls |-> NoCall]
    /\ pending = [c \in Calls |-> {}]
    /\ result = [c \in Calls |-> "none"]
    /\ reply = NoReply
    /\ cache = {}
    /\ db_ci \in BOOLEAN
    /\ points = {}

NextCache ==
    \/ Elapse
    \/ \E category_value \in CacheCategories : calculate_leaderboard(1, category_value, TRUE)
    \/ cache_results(1, Leaderboard(1, NULL))
    \/ \E s \in { x \in scores : x.registration = 1 }, raw_score \in Corrections :
          change_score(s, raw_score)
    \/ \E registration \in { r \in registrations : r.id = 1 } :
          post_process(registration, "paid")

SpecCache == InitCache /\ [][NextCache]_vars

\* The cache keys.  The set-ups of the leaderboard above, asked for through
\* the cache: both programs, unfiltered and for the categories "A" and "all".
InitKeys == InitBoard

NextKeys ==
    \/ \E program \in Programs, category_value \in BoardCategories :
          calculate_leaderboard(program, category_value, TRUE)
    \/ \E program \in Programs : cache_results(program, Leaderboard(program, NULL))

SpecKeys == InitKeys /\ [][NextKeys]_vars

\* The bulk upload endpoint.  Clients post lists of up to MaxBatch items for
\* judge 1 or an unknown judge, criteria 1 and 2, with scores 5.00, 8.00 and
\* 11.00, to a table that starts empty.
PointItems ==
    { [judge |-> j, participant |-> 1, criteria |-> k, score |-> v]
      : j \in {1, 9}, k \in KnownCriteria, v \in {500, 800, 1100} }

InitBulk ==
    /\ now = 0
    /\ config = [p \in Programs |-> NoConfig]
    /\ assignments = {}
    /\ conflicts = {}
    /\ rubrics = {}
    /\ criteria = {}
    /\ InitCalls

NextBulk == \E data \in UNION { [1..n -> PointItems] : n \in 0..MaxBatch } : post(data)

SpecBulk == InitBulk /\ [][NextBulk]_vars

\* The workload of the judges of program 1, whose registrations are as for
\* the leaderboard: administrators assign the judges for all categories or
\* for category "A", pause assignments, and ask for the distribution.
InitWorkload ==
    /\ now = 0
    /\ config = [p \in Programs |-> NoConfig]
    /\ assignments = {}
    /\ conflicts = {}
    /\ rubrics = {}
    /\ criteria = {}
    /\ scores = {}
    /\ pc = [c \in Calls |-> "idle"]
    /\ call = [c \in Calls |-> NoCall]
    /\ pending = [c \in Calls |-> {}]
    /\ result = [c \in Calls |-> "none"]
    /\ reply = NoReply
    /\ registrations \in { BoardRows(status) : status \in BoardStatuses }
    /\ cache = {}
    /\ db_ci \in BOOLEAN
    /\ points = {}

NextWorkload ==
    \/ \E judge \in Judges, category_value \in RosterCategories :
          assign_judge(1, judge, category_value)
    \/ \E queryset \in SUBSET assignments : pause_assignments(queryset)
    \/ \E category_value \in {NULL, "A"} : distribute_workload(1, category_value)

SpecWorkload == InitWorkload /\ [][NextWorkload]_vars

\* ------------------------------------------------------------------- claims
WindowErrors == {"NotStarted", "WindowClosed"}
RevisionPolicyErrors == {"RevisionsNotAllowed", "RevisionDeadlinePassed"}
RevisionErrors == RevisionPolicyErrors \cup {"MaxRevisionsExceeded"}
ItemErrors == {"CriteriaNotFound", "ScoreExceedsMax", "IntegrityError"} \cup RevisionErrors

\* The step is the return or raise of call c.
Returns(c) == pc[c] # "idle" /\ pc'[c] = "idle"

\* C1: submit_scores is all-or-nothing.  A call that ends with an error leaves
\* the committed JudgingScore table exactly as it was, whatever it had already
\* written for earlier items of its batch; the table changes only when a call
\* ends without error, and then by one row for every item of its batch.
C1_AllOrNothing ==
    [][ \A c \in Calls :
          /\ (Returns(c) /\ result'[c] # "OK") => scores' = scores
          /\ (Returns(c) /\ result'[c] = "OK") =>
                /\ scores' = scores \cup pending[c]
                /\ Cardinality(scores') = Cardinality(scores) + Len(call[c].scores_dict)
          /\ (~Returns(c) /\ pc'[c] # pc[c]) => scores' = scores ]_vars

\* A call failed on its second item, after writing the first, and nothing of
\* it is stored.
C1_Witness ==
    /\ pc[1] = "idle"
    /\ result[1] \in ItemErrors
    /\ call[1].idx = 2
    /\ scores = {}

\* The step is call c's insert attempt for its current item (lines 86-108).
Writes(c) == pc[c] = "write" /\ pc'[c] # "write"

KeyRows(rows, s) == { x \in rows : KeyOf(x) = KeyOf(s) }

\* C2: when an entry exists for the key and the revision policy allows a
\* revision, the same judge's next submission for that key appends an entry
\* with revision_number = previous + 1 and a back-reference to the previous
\* entry, and the previous entry stays stored unchanged.
C2_RevisionAppended ==
    [][ \A c \in Calls :
          (Writes(c) /\ call[c].existing_score # NoRow /\ RevisionCheck(c) = "OK") =>
             LET old == call[c].existing_score
             IN /\ \E x \in pending'[c] :
                     /\ KeyOf(x) = KeyOf(old)
                     /\ x.revision_number = old.revision_number + 1
                     /\ x.previous_score = old.id
                /\ old \in scores' ]_vars

C5_ScoresInRange ==
    \A s \in scores : 0 <= s.raw_score /\ s.raw_score <= s.max_score

\* C6: the window gate lets a call through exactly when the configured window
\* is active at the time of the call (both ends included); before scoring_start
\* and after scoring_end the call ends with the window error and nothing is
\* stored, whatever the other gates would say.
C6_WindowGate ==
    [][ \A c \in Calls :
          LET cfg == config[call[c].registration.program]
          IN (pc[c] = "gates" /\ pc'[c] # "gates" /\ cfg # NoConfig) =>
               /\ is_scoring_active(cfg, now) <=> ~(Returns(c) /\ result'[c] \in WindowErrors)
               /\ now < cfg.scoring_start => Returns(c) /\ result'[c] = "NotStarted"
               /\ now > cfg.scoring_end => Returns(c) /\ result'[c] = "WindowClosed"
               /\ ~is_scoring_active(cfg, now) => scores' = scores /\ pending'[c] = {} ]_vars

\* A call was turned away after the window closed although the judge is
\* assigned, has no conflict and a rubric exists.
C6_Witness ==
    /\ pc[1] = "idle"
    /\ result[1] = "WindowClosed"
    /\ now > config[1].scoring_end
    /\ validate_judge_permission(call[1].judge, call[1].registration) = "OK"
    /\ check_conflicts(call[1].judge, call[1].registration) = "OK"
    /\ get_for_registration(call[1].registration) # NoRow

\* The first entry of a list of check outcomes that is not "OK".
RECURSIVE FirstFailing(_)
FirstFailing(outcomes) ==
    IF outcomes = << >> THEN "OK"
    ELSE IF Head(outcomes) # "OK" THEN Head(outcomes)
    ELSE FirstFailing(Tail(outcomes))

GateOutcomes(c) ==
    << validate_scoring_window(call[c].registration.program, now),
       validate_judge_permission(call[c].judge, call[c].registration),
       check_conflicts(call[c].judge, call[c].registration),
       IF get_for_registration(call[c].registration) = NoRow THEN "NoActiveRubric" ELSE "OK" >>

\* C9, as claimed: the gates are checked in the order window, assignment,
\* conflict, rubric; then criterion membership and score range of every item;
\* then the revision checks.  So a call never ends with a revision error while
\* an item of its batch fails the membership or range check.
C9_RangeBeforeRevision ==
    [][ \A c \in Calls :
          /\ (Returns(c) /\ pc[c] = "gates") => result'[c] = FirstFailing(GateOutcomes(c))
          /\ (Returns(c) /\ pc[c] \in {"item", "write"} /\ result'[c] \in RevisionErrors) =>
                \A k \in DOMAIN call[c].scores_dict :
                   CheckItem(c, call[c].scores_dict[k]) = "OK" ]_vars

\* C9, as the code orders the checks: window, assignment, conflict, rubric,
\* then item by item in batch order: criterion membership, score range, the
\* revision checks (allowed, deadline, limit) and the insert of that item.  The
\* error of a call is that of the earliest failing check in this order.
C9_ItemByItemOrder ==
    [][ \A c \in Calls :
          /\ (Returns(c) /\ pc[c] = "gates") => result'[c] = FirstFailing(GateOutcomes(c))
          /\ (Returns(c) /\ pc[c] \in {"item", "write"} /\ result'[c] # "OK") =>
                LET e == result'[c]
                    i == call[c].idx
                    dict == call[c].scores_dict
                    cfg == config[call[c].registration.program]
                IN /\ \A k \in 1..(i - 1) :
                        /\ CheckItem(c, dict[k]) = "OK"
                        /\ \E x \in pending[c] : x.criteria = dict[k].criteria_id
                   /\ Cardinality(pending[c]) = i - 1
                   /\ pc[c] = "item" => e = CheckItem(c, dict[i])
                   /\ pc[c] = "write" =>
                        /\ CheckItem(c, dict[i]) = "OK"
                        /\ e \in RevisionErrors \cup {"IntegrityError"}
                        /\ e \in RevisionErrors => call[c].existing_score # NoRow
                        /\ e = "RevisionsNotAllowed" <=>
                             (call[c].existing_score # NoRow /\ ~cfg.allow_revisions)
                        /\ e = "RevisionDeadlinePassed" =>
                             /\ cfg.allow_revisions
                             /\ cfg.revision_deadline # NoDeadline
                             /\ now > cfg.revision_deadline[1]
                        /\ e = "MaxRevisionsExceeded" =>
                             /\ cfg.allow_revisions
                             /\ ~(cfg.revision_deadline # NoDeadline
                                  /\ now > cfg.revision_deadline[1])
                        /\ e = "IntegrityError" =>
                             (call[c].existing_score = NoRow \/ RevisionCheck(c) = "OK") ]_vars

\* A call made before the window opened by a judge who is not assigned, has a
\* rejected conflict and no rubric to score against got the window error.
C9_Witness ==
    /\ pc[1] = "idle"
    /\ result[1] = "NotStarted"
    /\ now < config[1].scoring_start
    /\ validate_judge_permission(call[1].judge, call[1].registration) # "OK"
    /\ check_conflicts(call[1].judge, call[1].registration) # "OK"
    /\ get_for_registration(call[1].registration) = NoRow

\* C10: a submission for a key that already has an entry ends with the
\* revision-not-allowed error and stores nothing when allow_revisions is false
\* or the revision deadline is set and has passed; a first submission for a key
\* is never turned away by the revision policy.
C10_RevisionPolicy ==
    [][ \A c \in Calls :
          Writes(c) =>
            LET cfg == config[call[c].registration.program]
            IN /\ (/\ call[c].existing_score # NoRow
                   /\ \/ ~cfg.allow_revisions
                      \/ cfg.revision_deadline # NoDeadline /\ now > cfg.revision_deadline[1])
                  => /\ Returns(c)
                     /\ result'[c] \in RevisionPolicyErrors
                     /\ scores' = scores
                     /\ pending'[c] = {}
               /\ call[c].existing_score = NoRow =>
                     ~(Returns(c) /\ result'[c] \in RevisionErrors) ]_vars

\* A judge re-submitted a stored key after the revision deadline and was turned
\* away; the stored entry is the first revision.
C10_Witness ==
    /\ pc[1] = "idle"
    /\ result[1] = "RevisionDeadlinePassed"
    /\ scores # {}
    /\ \A s \in scores : s.revision_number = 1

\* Since call c looked the key of its current item up, another call has
\* committed the very revision c is about to insert.
Stale(c) ==
    \E x \in scores : /\ KeyOf(x) = KeyOf(RowToInsert(c))
                      /\ x.revision_number = RowToInsert(c).revision_number

DuplicateRevision(rows) ==
    \E x, y \in rows : /\ x # y
                       /\ KeyOf(x) = KeyOf(y)
                       /\ x.revision_number = y.revision_number

PassesGates(c) == pc[c] = "gates" /\ pc'[c] \in {"item", "commit"}
StopsAtGates(c, outcome) == pc[c] = "gates" /\ Returns(c) /\ result'[c] = outcome

\* C7: the assignment gate lets a judge through exactly when one of the judge's
\* assignments to the registration's program is ACTIVE and is for all
\* categories or for the registration's category; PAUSED, COMPLETED and
\* CANCELLED assignments and assignments for another category or program
\* never let a submission through.
C7_AssignmentGate ==
    [][ \A c \in Calls :
          LET judge == call[c].judge
              registration == call[c].registration
              mine == { a \in assignments : a.judge = judge /\ a.program = registration.program }
              allowing == { a \in mine : /\ a.status \notin {"PAUSED", "COMPLETED", "CANCELLED"}
                                         /\ a.category_value \in {"", registration.category_value} }
          IN /\ PassesGates(c) => \E a \in allowing : a.status = "ACTIVE"
             /\ StopsAtGates(c, "NotAssigned") => allowing = {}
             /\ (pc[c] = "gates" /\ pc'[c] # "gates" /\ allowing = {}
                   /\ validate_scoring_window(registration.program, now) = "OK")
                => StopsAtGates(c, "NotAssigned") /\ scores' = scores ]_vars

\* The judge's assignment for all categories of the program is PAUSED and the
\* call was turned away.
C7_Witness ==
    /\ pc[1] = "idle"
    /\ result[1] = "NotAssigned"
    /\ \E a \in assignments : /\ a.judge = call[1].judge
                              /\ a.program = call[1].registration.program
                              /\ a.category_value = ""
                              /\ a.status = "PAUSED"

\* C8: a call ends with the conflict-of-interest error, storing nothing, exactly
\* when a REJECTED conflict between the judge and the registration's
\* participant exists at the time of the call; PENDING and APPROVED conflicts
\* and the absence of a conflict never stop it.
C8_ConflictGate ==
    [][ \A c \in Calls :
          LET judge == call[c].judge
              registration == call[c].registration
              mine == { x \in conflicts : /\ x.judge = judge
                                          /\ x.participant = registration.participant }
              rejected == \E x \in mine : x.status = "REJECTED"
          IN /\ PassesGates(c) => ~rejected
             /\ StopsAtGates(c, "ConflictOfInterest") => rejected /\ scores' = scores
             /\ (pc[c] = "gates" /\ pc'[c] # "gates" /\ rejected
                   /\ validate_scoring_window(registration.program, now) = "OK"
                   /\ validate_judge_permission(judge, registration) = "OK")
                => StopsAtGates(c, "ConflictOfInterest")
             /\ (pc[c] = "gates" /\ pc'[c] # "gates" /\ ~rejected)
                => ~StopsAtGates(c, "ConflictOfInterest") ]_vars

\* The judge's conflict with the participant is REJECTED and the call was
\* turned away, while the same judge's entry for the other participant, with
\* whom the conflict is not REJECTED, is stored.
C8_Witness ==
    /\ pc[1] = "idle"
    /\ result[1] = "ConflictOfInterest"
    /\ \E x \in conflicts : /\ x.judge = call[1].judge
                            /\ x.participant = call[1].registration.participant
                            /\ x.status = "REJECTED"
    /\ \E s \in scores, x \in conflicts :
          /\ s.judge = call[1].judge
          /\ s.registration # call[1].registration.id
          /\ x.judge = s.judge
          /\ x.participant # call[1].registration.participant
          /\ x.status \in {"PENDING", "APPROVED"}

\* C11, as claimed: with max_revisions_per_score = k > 0 the entries of a key
\* grow up to k and the submission that is turned away is the one that finds k
\* entries stored, with the revision-limit error and nothing stored; so a key
\* never holds more than k entries, and a re-submission of a stored key that
\* the policy otherwise allows fails only by the limit, and only at k entries.
\* With k = 0 the limit turns no submission away.
C11_RevisionLimit ==
    /\ [] \A s \in scores :
            LET k == config[s.program].max_revisions_per_score
            IN k > 0 => Cardinality(KeyRows(scores, s)) <= k
    /\ [][ \A c \in Calls :
             LET cfg == config[call[c].registration.program]
                 k == cfg.max_revisions_per_score
                 old == call[c].existing_score
             IN /\ (Writes(c) /\ Returns(c) /\ result'[c] = "MaxRevisionsExceeded") =>
                      /\ k > 0
                      /\ scores' = scores
                /\ (Writes(c) /\ old # NoRow /\ cfg.allow_revisions
                      /\ cfg.revision_deadline = NoDeadline /\ k > 0) =>
                      IF Cardinality(KeyRows(Visible(c), old)) >= k
                      THEN Returns(c) /\ result'[c] = "MaxRevisionsExceeded" /\ scores' = scores
                      ELSE ~Returns(c) ]_vars

ActivePairs(rows) == { << r.program, r.category_value >> : r \in { x \in rows : x.is_active } }

\* C12: in every state reached by create_rubric and clone_rubric calls, each
\* (program, category_value) pair, the general pair with category_value NULL
\* included, has at most one rubric with is_active = true.
C12_OneActiveRubric ==
    \A r1, r2 \in rubrics :
       (/\ r1.is_active /\ r2.is_active
        /\ r1.program = r2.program
        /\ r1.category_value = r2.category_value) => r1 = r2

\* A second general rubric was created for a program that had an active
\* general rubric: the older one is stored inactive, the new one active.
C12_Witness ==
    \E r1, r2 \in rubrics :
       /\ r1.program = r2.program
       /\ r1.category_value = NULL /\ r2.category_value = NULL
       /\ r1.id < r2.id
       /\ ~r1.is_active /\ r2.is_active
       /\ reply.op = "create_rubric" /\ reply.outcome = "OK" /\ reply.rubric = r2.id

\* The step is a call of create_rubric; reply' holds its arguments and outcome.
CreatesRubric == reply' # reply /\ reply'.op = "create_rubric"

\* C13: create_rubric succeeds only if the weights of criteria_list sum to 1.0
\* within 0.01, a deviation of exactly 0.01 being accepted; for any other list
\* it fails with the validation error, creates no rubric and no criterion and
\* leaves the active rubric of the pair active.
C13_WeightsValidated ==
    [][ CreatesRubric =>
          LET deviation == Abs(SumWeights(reply'.criteria_list) - 1000)
          IN /\ reply'.outcome = "OK" => deviation <= 10
             /\ (deviation <= 10 /\ UniqueNames(reply'.criteria_list)) =>
                   /\ reply'.outcome = "OK"
                   /\ \E r \in rubrics' \ rubrics : r.id = reply'.rubric
             /\ deviation > 10 =>
                   /\ reply'.outcome = "ValidationError"
                   /\ rubrics' = rubrics
                   /\ criteria' = criteria ]_vars

\* A list whose weights sum to 0.989 was refused while the pair has an active
\* rubric, which is still active; its own weights deviate by exactly 0.01.
C13_Witness ==
    /\ reply.op = "create_rubric"
    /\ reply.outcome = "ValidationError"
    /\ SumWeights(reply.criteria_list) = 989
    /\ \E r \in rubrics :
          /\ r.program = reply.program
          /\ r.category_value = reply.category_value
          /\ r.is_active
          /\ Abs(SumWeights([i \in 1..Cardinality({ k \in criteria : k.rubric = r.id }) |->
                   CHOOSE k \in criteria :
                      /\ k.rubric = r.id
                      /\ Cardinality({ x \in criteria : x.rubric = r.id /\ x.id <= k.id }) = i])
                 - 1000) = 10

\* What the call resolved: the rubric it goes on with, NoRow when it stops for
\* want of a rubric.
Resolved(c) == IF StopsAtGates(c, "NoActiveRubric") THEN NoRow ELSE call'[c].rubric

\* C14: get_for_registration returns the active rubric of the registration's
\* program whose category_value equals the registration's, when one exists;
\* otherwise the program's active rubric without category_value; otherwise
\* nothing.  It never returns an inactive rubric, a rubric of another program
\* or a rubric of a different category.
C14_Resolution ==
    [][ \A c \in Calls :
          (PassesGates(c) \/ StopsAtGates(c, "NoActiveRubric")) =>
             LET registration == call[c].registration
                 active == { r \in rubrics : r.is_active /\ r.program = registration.program }
                 specific == { r \in active : r.category_value = registration.category_value }
                 general == { r \in active : r.category_value = NULL }
             IN /\ specific # {} => Resolved(c) \in specific
                /\ (specific = {} /\ general # {}) => Resolved(c) \in general
                /\ (specific = {} /\ general = {}) => Resolved(c) = NoRow
                /\ Resolved(c) # NoRow => Resolved(c) \in specific \cup general ]_vars

\* The resolution order of C14 for the registrations whose category_value is
\* NULL or a non-empty string.
C14_ResolutionNonEmpty ==
    [][ \A c \in Calls :
          ((PassesGates(c) \/ StopsAtGates(c, "NoActiveRubric"))
              /\ call[c].registration.category_value # "") =>
             LET registration == call[c].registration
                 active == { r \in rubrics : r.is_active /\ r.program = registration.program }
                 specific == { r \in active : r.category_value = registration.category_value }
                 general == { r \in active : r.category_value = NULL }
             IN /\ specific # {} => Resolved(c) \in specific
                /\ (specific = {} /\ general # {}) => Resolved(c) \in general
                /\ (specific = {} /\ general = {}) => Resolved(c) = NoRow
                /\ Resolved(c) # NoRow => Resolved(c) \in specific \cup general ]_vars

\* C15: score entries are append-only.  No operation the program exposes
\* changes a field of a stored entry or removes it; the table changes only by
\* the addition of entries.
C15_AppendOnly == [][ scores \subseteq scores' ]_vars

\* TRUE when stored is a * b * t / (d1 * d2) rounded to the nearest integer;
\* common factors are cancelled before the products are formed.
NearestToProduct(stored, a, d1, b, d2, t) ==
    LET g1 == GCD(a, d1)
        g2 == GCD(b, d2)
        n1 == (a \div g1) * (b \div g2)
        dd == (d1 \div g1) * (d2 \div g2)
        g3 == GCD(t, dd)
        n == n1 * (t \div g3)
        d == dd \div g3
    IN Abs(stored * d - n) * 2 <= d

\* C16: every entry is stored with score_percentage = raw_score / max_score *
\* 100 and weighted_score = (score_percentage / 100) * criterion.weight *
\* rubric.total_possible_points, computed from the criterion and rubric as they
\* are when the entry is written and kept to the two decimals of the columns.
\* For the rubric with weights 0.6 and 0.4, max_score 10 and 100 points, raw
\* scores 8 and 6 give weighted scores 48 and 24, 72 for the judge.
C16_DerivedScores ==
    /\ [][ \A c \in Calls : \A x \in pending'[c] \ pending[c] :
             LET crit == CHOOSE k \in criteria : k.id = x.criteria
                 rubric == CHOOSE r \in rubrics : r.id = crit.rubric
             IN /\ x.max_score = crit.max_score
                /\ NearestToProduct(x.score_percentage, x.raw_score, x.max_score, 100, 1, 100)
                /\ NearestToProduct(x.weighted_score, x.raw_score, x.max_score,
                                    crit.weight, 1000, rubric.total_possible_points)
                /\ (x.raw_score * 10000) % x.max_score = 0 =>
                      x.score_percentage * x.max_score = x.raw_score * 10000 ]_vars
    /\ [] \A s1, s2 \in scores :
            (/\ s1.judge = s2.judge /\ s1.registration = s2.registration
             /\ s1.criteria = 1 /\ s1.raw_score = 800
             /\ s2.criteria = 2 /\ s2.raw_score = 600) =>
               /\ s1.weighted_score = 4800
               /\ s2.weighted_score = 2400
               /\ s1.weighted_score + s2.weighted_score = 7200

\* A judge's entries for raw scores 8 and 6 on the general rubric are stored,
\* and so is an entry whose percentage (1 of 3) had to be rounded.
C16_Witness ==
    /\ \E s1, s2 \in scores :
          /\ s1.judge = s2.judge /\ s1.registration = s2.registration
          /\ s1.criteria = 1 /\ s1.raw_score = 800
          /\ s2.criteria = 2 /\ s2.raw_score = 600
    /\ \E s \in scores : s.raw_score = 100 /\ s.max_score = 300 /\ s.score_percentage = 3333

\* The step is a call of aggregate_scores; reply' holds what it returned.
Aggregates == reply' # reply /\ reply'.op = "aggregate_scores"

MethodInForce ==
    IF config[1] = NoConfig THEN "AVERAGE_ALL" ELSE config[1].calculation_method

\* The weighted scores of the entries as a bag.
WeightedBag(rows) ==
    [v \in { x.weighted_score : x \in rows } |-> Cardinality({ x \in rows : x.weighted_score = v })]

\* C18: for a non-empty list of current entries WEIGHTED returns the sum of
\* their weighted scores, undivided, and AVERAGE_ALL that sum divided by the
\* number of entries, whatever judges and criteria they belong to; weighted
\* scores 8, 9 and 10 give the average 9.
C18_SumAndMean ==
    [][ (Aggregates /\ reply'.scores_list # {}) =>
          LET fed == reply'.scores_list
              total == SumWeighted(fed)
              f == reply'.final_score
          IN /\ MethodInForce = "WEIGHTED" => f = << total, 1 >>
             /\ MethodInForce = "AVERAGE_ALL" =>
                   /\ f[1] * Cardinality(fed) = total * f[2]
                   /\ f[2] > 0
             /\ (MethodInForce = "AVERAGE_ALL"
                   /\ WeightedBag(fed) = (800 :> 1) @@ (900 :> 1) @@ (1000 :> 1))
                => f = << 900, 1 >> ]_vars

\* The weighted scores 8, 9 and 10 of three judges were averaged to 9.
C18_Witness ==
    /\ reply.op = "aggregate_scores"
    /\ MethodInForce = "AVERAGE_ALL"
    /\ WeightedBag(reply.scores_list) = (800 :> 1) @@ (900 :> 1) @@ (1000 :> 1)
    /\ reply.final_score = << 900, 1 >>

JudgeTotal(rows, j) == SumWeighted({ x \in rows : x.judge = j })

RECURSIVE SumTotals(_, _)
SumTotals(rows, judges) ==
    IF judges = {} THEN 0
    ELSE LET j == CHOOSE x \in judges : TRUE
         IN JudgeTotal(rows, j) + SumTotals(rows, judges \ {j})

TotalsBag(rows) ==
    LET judges == { x.judge : x \in rows }
    IN [v \in { JudgeTotal(rows, j) : j \in judges } |->
          Cardinality({ j \in judges : JudgeTotal(rows, j) = v })]

\* C19: TOP_N sums each judge's current weighted scores into one total per
\* judge, takes the top_n_count highest totals (3 when top_n_count is not set,
\* all totals when fewer judges have scored) and returns their mean; totals
\* 50, 70 and 90 with top_n_count = 2 give 80.
C19_TopN ==
    [][ (Aggregates /\ reply'.scores_list # {} /\ MethodInForce = "TOP_N") =>
          LET fed == reply'.scores_list
              judges == { x.judge : x \in fed }
              wanted == IF config[1].top_n_count = 0 THEN 3 ELSE config[1].top_n_count
              m == IF Cardinality(judges) < wanted THEN Cardinality(judges) ELSE wanted
              f == reply'.final_score
          IN /\ \E top \in SUBSET judges :
                   /\ Cardinality(top) = m
                   /\ \A a \in top, b \in judges \ top : JudgeTotal(fed, a) >= JudgeTotal(fed, b)
                   /\ f[1] * m = SumTotals(fed, top) * f[2]
                   /\ f[2] > 0
             /\ (config[1].top_n_count = 2
                   /\ TotalsBag(fed) = (5000 :> 1) @@ (7000 :> 1) @@ (9000 :> 1))
                => f = << 8000, 1 >> ]_vars

\* Three judges with totals 50, 70 and 90 were aggregated with top_n_count 2.
C19_Witness ==
    /\ reply.op = "aggregate_scores"
    /\ MethodInForce = "TOP_N"
    /\ config[1].top_n_count = 2
    /\ TotalsBag(reply.scores_list) = (5000 :> 1) @@ (7000 :> 1) @@ (9000 :> 1)
    /\ reply.final_score = << 8000, 1 >>

\* C20: MEDIAN returns the median of all current weighted scores of the
\* registration, one value per judge and criterion: the middle value of an odd
\* number of values, the mean of the two middle values of an even number;
\* values 10, 20, 30 and 40 give 25.
C20_Median ==
    [][ (Aggregates /\ reply'.scores_list # {} /\ MethodInForce = "MEDIAN") =>
          LET fed == reply'.scores_list
              n == Cardinality(fed)
              below(v) == Cardinality({ x \in fed : x.weighted_score < v })
              upto(v) == Cardinality({ x \in fed : x.weighted_score <= v })
              nth(v, k) == below(v) < k /\ upto(v) >= k
              f == reply'.final_score
          IN /\ n % 2 = 1 =>
                   \E x \in fed : /\ nth(x.weighted_score, (n + 1) \div 2)
                                  /\ f = << x.weighted_score, 1 >>
             /\ n % 2 = 0 =>
                   \E x, y \in fed : /\ nth(x.weighted_score, n \div 2)
                                     /\ nth(y.weighted_score, n \div 2 + 1)
                                     /\ f[1] * 2 = (x.weighted_score + y.weighted_score) * f[2]
                                     /\ f[2] > 0
             /\ WeightedBag(fed) = (1000 :> 1) @@ (2000 :> 1) @@ (3000 :> 1) @@ (4000 :> 1)
                => f = << 2500, 1 >> ]_vars

\* The four weighted scores 10, 20, 30 and 40, of three judges, gave 25.
C20_Witness ==
    /\ reply.op = "aggregate_scores"
    /\ MethodInForce = "MEDIAN"
    /\ WeightedBag(reply.scores_list) = (1000 :> 1) @@ (2000 :> 1) @@ (3000 :> 1) @@ (4000 :> 1)
    /\ Cardinality({ x.judge : x \in reply.scores_list }) = 3
    /\ reply.final_score = << 2500, 1 >>

\* C21: the list calculate_leaderboard returns is in descending order of
\* final_score and its rank fields are 1, 2, ..., n in list order: a result of
\* smaller rank never has a smaller final_score, and no rank is skipped or
\* repeated, equal scores included.
C21_RankOrder ==
    reply.op = "calculate_leaderboard" =>
       LET results == reply.results
       IN /\ \A i \in DOMAIN results : results[i].rank = i
          /\ \A i, j \in DOMAIN results :
                results[i].rank < results[j].rank =>
                   ~Less(results[i].final_score, results[j].final_score)
          /\ \A i, j \in DOMAIN results : i # j => results[i].rank # results[j].rank
          /\ { results[i].rank : i \in DOMAIN results } = 1..Len(results)

\* Three registrations were ranked, two of them with the same final score,
\* and the registration created last was not the best one.
C21_Witness ==
    /\ reply.op = "calculate_leaderboard"
    /\ Len(reply.results) = 3
    /\ \E i \in 1..2 : reply.results[i].final_score = reply.results[i + 1].final_score
    /\ Less(reply.results[3].final_score, reply.results[1].final_score)
    /\ reply.results[1].registration_id # 3

\* calculate_leaderboard has returned to a caller that uses the cache.
CachedCall == reply' # reply /\ reply'.op = "calculate_leaderboard" /\ reply'.use_cache

\* What was stored under the call's key less than CACHE_TIMEOUT seconds ago.
StoredFor(r) == { e \in cache : e.key = cache_key(r.program, r.category_value)
                                /\ now < e.expires }

\* C22: a call of calculate_leaderboard with use_cache=True returns the result
\* stored for its program and category less than five minutes earlier,
\* unchanged, whatever was saved in between; when nothing was stored or the
\* five minutes have passed it returns the list computed from the stored rows.
C22_CacheWindow ==
    [][ CachedCall =>
          IF StoredFor(reply') # {}
          THEN \A e \in StoredFor(reply') : reply'.results = e.value
          ELSE reply'.results = Leaderboard(reply'.program, reply'.category_value) ]_vars

\* The endpoint has answered a posted batch.
Posts == reply' # reply /\ reply'.op = "post"

\* The last item of the batch for the key of item i that is valid on its own.
LastValid(data, i) ==
    LET same == { j \in DOMAIN data : /\ PointKey(data[j]) = PointKey(data[i])
                                      /\ item_errors(data[j]) = {} }
    IN data[CHOOSE j \in same : \A k \in same : k <= j]

\* C23: the bulk upload isolates failures per item: after a batch every item
\* that is valid on its own is stored (its key holds the score of the last
\* valid item for that key), every invalid item is reported with its own
\* error, and an invalid item does not keep the valid ones from being stored.
C23_PerItemIsolation ==
    [][ Posts =>
          LET data == reply'.data
          IN \A i \in DOMAIN data :
                IF item_errors(data[i]) = {}
                THEN \E x \in points' : /\ PointKey(x) = PointKey(data[i])
                                        /\ x.score = LastValid(data, i).score
                ELSE /\ i \in DOMAIN reply'.errors
                     /\ reply'.errors[i] # {} ]_vars

\* The conflict of the same judge and participant after the step.
Successor(x) == { y \in conflicts' : y.judge = x.judge /\ y.participant = x.participant }

\* C24: a conflict's status only ever changes from PENDING to APPROVED or from
\* PENDING to REJECTED, a reviewed conflict is not changed again by a review
\* action, and every APPROVED or REJECTED conflict has its reviewer and its
\* review time recorded.
C24_ReviewOnce ==
    [][ /\ \A x \in conflicts : \A y \in Successor(x) :
             y.status # x.status =>
                x.status = "PENDING" /\ y.status \in {"APPROVED", "REJECTED"}
        /\ \A y \in conflicts' :
             (y \notin conflicts /\ y.status \in {"APPROVED", "REJECTED"}) =>
                y.reviewed_by # NULL /\ y.reviewed_at # NoDeadline ]_vars

\* assign_judge has returned or raised.
Assigns == reply' # reply /\ reply'.op = "assign_judge"

RowsOf(rows, key) == { a \in rows : AssignmentKey(a) = key }

\* C25: assign_judge creates an ACTIVE assignment when none exists for its
\* program, judge and category, sets an existing CANCELLED one back to ACTIVE
\* without adding a row, and raises a validation error, changing nothing, when
\* the existing one is ACTIVE, PAUSED or COMPLETED; no key ever has two rows.
C25_AssignOutcome ==
    [][ Assigns =>
          LET key == << reply'.program, reply'.judge, reply'.category_value >>
              before == RowsOf(assignments, key)
              after == RowsOf(assignments', key)
          IN /\ assignments \ before = assignments' \ after
             /\ before = {} =>
                   /\ reply'.outcome = "created"
                   /\ \E a \in after : after = {a} /\ a.status = "ACTIVE"
             /\ \A a \in before :
                   /\ a.status = "CANCELLED" =>
                         /\ reply'.outcome = "reactivated"
                         /\ after = { [a EXCEPT !.status = "ACTIVE"] }
                   /\ a.status \in {"ACTIVE", "PAUSED", "COMPLETED"} =>
                         /\ reply'.outcome = "ValidationError"
                         /\ assignments' = assignments
             /\ \A a, b \in assignments' : AssignmentKey(a) = AssignmentKey(b) => a = b ]_vars

\* The call for a key whose assignment is COMPLETED was refused, next to an
\* assignment that was cancelled.
C25_Witness ==
    /\ reply.op = "assign_judge"
    /\ reply.outcome = "ValidationError"
    /\ \E a \in assignments :
          /\ AssignmentKey(a) = << reply.program, reply.judge, reply.category_value >>
          /\ a.status = "COMPLETED"
    /\ \E a \in assignments : a.status = "CANCELLED"

RECURSIVE SumCounts(_, _)
SumCounts(distribution, judges) ==
    IF judges = {} THEN 0
    ELSE LET j == CHOOSE x \in judges : TRUE
         IN distribution[j] + SumCounts(distribution, judges \ {j})

\* C26: distribute_workload over N >= 1 selected ACTIVE assignments and M
\* eligible registrations gives every assignment M div N or M div N + 1, the
\* first M mod N assignments in iteration order the larger count, and counts
\* that add up to M, also when a judge holds an assignment for all categories
\* and one for a category.
C26_EvenSplit ==
    (reply.op = "distribute_workload" /\ reply.iterated # << >>) =>
       LET N == Len(reply.iterated)
           M == Cardinality(EligibleRegistrations(reply.program, reply.category_value))
           received(i) == reply.distribution[reply.iterated[i].judge]
       IN /\ \A i \in 1..N : received(i) = (M \div N) + (IF i <= M % N THEN 1 ELSE 0)
          /\ SumCounts(reply.distribution, DOMAIN reply.distribution) = M

\* C27: create_rubric is atomic: when the creation of the rubric or of one of
\* its criteria fails after the active rubric of the program and category was
\* deactivated (two criteria of the same name, say), that rubric is still
\* active afterwards and neither the new rubric nor any criterion of it exists.
C27_CreateAtomic ==
    [][ (CreatesRubric /\ reply'.outcome # "OK") =>
          /\ \A r \in rubrics :
                (r.program = reply'.program /\ r.category_value = reply'.category_value
                   /\ r.is_active) => r \in rubrics'
          /\ \A r \in rubrics' : r \in rubrics
          /\ \A k \in criteria' : k \in criteria ]_vars

\* The creation failed on the second of two criteria named alike while the
\* program and category had an active rubric, which is active still.
C27_Witness ==
    /\ reply.op = "create_rubric"
    /\ reply.outcome = "IntegrityError"
    /\ Inserted(reply.criteria_list) = 1
    /\ \E r \in rubrics : /\ r.program = reply.program
                          /\ r.category_value = reply.category_value
                          /\ r.is_active

\* The registrations of the program whose status is Registration.Status.PAID,
\* of the category when one is given.
PaidRegistrations(program, category_value) ==
    { r \in registrations :
        /\ r.program = program
        /\ r.status = "paid"
        /\ Truthy(category_value) => r.category_value = category_value }

\* C28: calculate_leaderboard without the cache returns exactly one result for
\* each paid registration of the program (of the category when one is given)
\* and none for a registration of another status, and distribute_workload
\* counts the same registrations.
C28_PaidOnly ==
    LET paid == PaidRegistrations(reply.program, reply.category_value)
    IN /\ (reply.op = "calculate_leaderboard" /\ ~reply.use_cache) =>
             /\ Len(reply.results) = Cardinality(paid)
             /\ { reply.results[i].registration_id : i \in DOMAIN reply.results }
                  = { r.id : r \in paid }
       /\ (reply.op = "distribute_workload" /\ reply.iterated # << >>) =>
             SumCounts(reply.distribution, DOMAIN reply.distribution) = Cardinality(paid)

\* C29: cache entries are kept apart by program and category: a call answered
\* from the cache gets the result of its own program and category, never the
\* result stored for another pair; the unfiltered result is never returned to
\* a call filtered to a category, or the reverse, whatever the category string.
\* (Nothing is saved between the calls here, so the result of a pair is the
\* list computed for it.)
C29_KeysSeparate ==
    (reply.op = "calculate_leaderboard" /\ reply.cached) =>
       /\ reply.results = Leaderboard(reply.program, reply.category_value)
       /\ \A i \in DOMAIN reply.results :
             \E r \in registrations :
                /\ r.id = reply.results[i].registration_id
                /\ r.program = reply.program
                /\ Truthy(reply.category_value) => r.category_value = reply.category_value

\* C30: however two create_rubric calls for the same program and category,
\* the general pair without category included, run against each other, the
\* committed table never holds two active rubrics of that pair.
C30_OneActiveCommitted ==
    \A program \in Programs, category_value \in RubricCategories :
       Cardinality({ r \in rubrics : r.is_active /\ SamePair(r, program, category_value) }) <= 1

====
